---- MODULE Spec2Model ----
(***************************************************************************)
(* Model of the Meta AI Automator browser extension: the automation        *)
(* controller of the content script (src/content.js), the sidebar's Start  *)
(* and Stop handlers (src/unnamed/part_000, sidebar.js), the persisted     *)
(* chrome.storage.local state they share, and the page the controller      *)
(* drives.                                                                 *)
(*                                                                         *)
(* JavaScript runs each task to its next await, so one action of the model *)
(* is one such segment: it starts where a promise, a timer or a message    *)
(* resumes the code and ends where the code awaits again.                  *)
(*                                                                         *)
(* Time inside the two condition waits is counted in poll ticks of the     *)
(* wait's own interval timer.  Storage writes take effect when they are    *)
(* issued; storage and the messaging channel do not fail.  A message sent  *)
(* with sendToSidebar is handled by the sidebar's handleMessage at once.   *)
(***************************************************************************)
EXTENDS Integers, Sequences, FiniteSets, TLC

VARIABLES
    store,   \* chrome.storage.local: the persisted keys
    ctl,     \* the content script's globals and the position of its async code
    page,    \* what the controller can observe of the page
    sent,    \* the messages the current run has passed to sendToSidebar, in order
    sb,      \* the sidebar: its isRunning flag and the position of its handlers
    hist,    \* history of the execution (ghost state; the code never reads it)
    loc,     \* one call of findElementFromSelectors and the page it looks at
    lg,      \* the persisted logs and the calls of addLogEntry in flight
    ui,      \* the sidebar's form, its Start handler and what the handler passed on
    up,      \* one call of uploadImage and the page it acts on
    old      \* one item of the older content script (download-affordance variant)

vars == <<store, ctl, page, sent, sb, hist, loc, lg, ui, up, old>>

----------------------------------------------------------------------------
(* Bounds of the model *)

\* largest number of queue items a persisted queue or a selection holds
MaxItems == 2
\* number of user events after the session began: Start clicks that pass the
\* sidebar's validation, and page reloads (each loads the content script anew)
MaxUserEvents == 2
\* poll ticks of waitForSendButtonEnabled that fit into BUTTON_ENABLE_TIMEOUT:
\* the tick after these finds Date.now() - startTime > BUTTON_ENABLE_TIMEOUT
\* (60000 / 300 in CONFIG, scaled down)
ButtonTimeoutTicks == 1
\* poll ticks of waitForGenerationComplete that fit into TIMEOUT
\* ((120000 - 1000) / 500 in CONFIG, scaled down)
GenTimeoutTicks == 2
\* poll ticks of waitForGenerationComplete within the first 3000 ms after
\* startTime ((3000 - 1000) / 500 in the source, scaled down)
ReenableTicks == 1
\* the longest selector list and the largest maxAttempts findElementFromSelectors
\* is called with
MaxSelectors == 3
MaxAttempts == 3

\* the number of values of Math.random() the model draws from
RandomSteps == 2

\* addLogEntry: the calls made, the calls in flight at once, and the calls made
\* while another call was in flight
MaxAppends == 52
MaxInFlight == 2
MaxOverlaps == 1

\* the lines of the prompts textarea
MaxLines == 2

\* the input[type="file"] elements of the page
MaxInputs == 2

----------------------------------------------------------------------------
(* Constants of the program (CONFIG and literals of content.js, sidebar.js) *)

MIN_DELAY == 5000
MAX_DELAY == 15000

\* await sleep(3000) in the catch of the loop body
CooldownMs == 3000

\* if (logs.length > 50) logs.shift()
LogCapacity == 50

\* waitForImagePreview(timeout = 3000), waitForImagePreview(1000), await sleep(200)
PreviewTimeout == 3000
InputPreviewTimeout == 1000
PreviewPollMs == 200

----------------------------------------------------------------------------
(* Values *)

\* JavaScript's undefined: a key storage does not hold, a field a message does
\* not carry
Undefined == -2

Msg(type, index, current, total, status, error) ==
    [type |-> type, index |-> index, current |-> current, total |-> total,
     status |-> status, error |-> error]

ProgressUpdate(current, total, status) ==
    Msg("PROGRESS_UPDATE", Undefined, current, total, status, "")
ItemComplete(index) == Msg("ITEM_COMPLETE", index, Undefined, Undefined, "", "")
ItemError(index, error) == Msg("ITEM_ERROR", index, Undefined, Undefined, "", error)
AutomationComplete == Msg("AUTOMATION_COMPLETE", Undefined, Undefined, Undefined, "", "")
AutomationStopped == Msg("AUTOMATION_STOPPED", Undefined, Undefined, Undefined, "", "")

\* the persisted states a session can start from: nothing stored yet, or a queue
\* of n items with its prompts, a checkpoint and the run flag, as the spec's
\* persisted state layout describes them
PersistedStores ==
    {[prompts |-> Undefined, totalItems |-> Undefined, queueMeta |-> Undefined,
      queue |-> Undefined, currentIndex |-> Undefined, isRunning |-> FALSE]}
    \cup
    {st \in [prompts : 1..MaxItems, totalItems : 1..MaxItems, queueMeta : 1..MaxItems,
              queue : {Undefined}, currentIndex : 0..MaxItems, isRunning : BOOLEAN] :
        /\ st.prompts = st.totalItems
        /\ st.queueMeta = st.totalItems
        /\ st.currentIndex <= st.totalItems}

\* the content script's globals right after the script has loaded
InitCtl ==
    [isRunning |-> FALSE, shouldStop |-> FALSE, currentObserver |-> FALSE,
     buttonObserver |-> FALSE, checkInterval |-> FALSE, pc |-> "idle",
     resume |-> "get",
     i |-> 0, totalItems |-> 0, prompts |-> 0, ticks |-> 0,
     blank |-> FALSE,
     sleep |-> 0]     \* ms of the pending sleep between two items, else 0

InitPage == [btnEnabled |-> FALSE, newVideo |-> FALSE]

\* no call of findElementFromSelectors is looked at
NoCall ==
    [pc |-> "none", selectors |-> 0, maxAttempts |-> 0, sleeps |-> 0,
     result |-> Undefined, seen |-> <<>>]

\* no call of addLogEntry is looked at
NoLog == [stored |-> <<>>, calls |-> <<>>, appended |-> 0, overlaps |-> 0]

\* the sidebar's form is not looked at
NoForm ==
    [pc |-> "none", files |-> 0, text |-> <<>>, held |-> [files |-> 0, prompts |-> 0],
     logs |-> <<>>, msgs |-> <<>>, events |-> 0, clicks |-> 0]

\* no call of uploadImage is looked at
NoUpload ==
    [pc |-> "none", method |-> 0, input |-> 0, inputs |-> 0, elapsed |-> 0,
     tried |-> <<>>, result |-> "none"]

\* no item of the older content script is looked at
NoOldItem ==
    [pc |-> "none", i |-> 0, total |-> 0, ticks |-> 0, shouldStop |-> FALSE,
     stops |-> 0, observer |-> FALSE, downloadBtn |-> FALSE, spinner |-> FALSE,
     recheck |-> FALSE, msgs |-> <<>>, currentIndex |-> 0, isRunning |-> FALSE,
     timedOut |-> {}]

NoStop == [pc |-> "none", i |-> Undefined]
NoWait == [wait |-> "none", outcome |-> "none", by |-> "none", stopPending |-> FALSE]

InitHist ==
    [starts |-> 0, reloads |-> 0,
     event |-> "none",       \* what the last step did: "call" (runAutomation was
                             \* called), "stopTop" (the loop top saw the stop flag),
                             \* or how a GET_IMAGE_DATA request ended
     startIndex |-> Undefined,  \* the checkpoint the current run read
     stopHandled |-> FALSE,  \* STOP_AUTOMATION was handled during the current run
     stopCtx |-> NoStop,     \* the wait that was pending (or "elsewhere") and the
                             \* index in work when the run's first stop was handled
     rewritten |-> FALSE,    \* the sidebar's Start handler wrote the store since
                             \* the last run was entered
     waitStop |-> FALSE,     \* the stop flag was set while the pending wait waited
     lastWait |-> NoWait,    \* how the last wait settled
     fetched |-> <<>>,       \* indices the current run requested image data for
     clicks |-> <<>>,        \* indices of the items the current run clicked Send for
     ended |-> "none",       \* how the last run ended
     stopTop |-> Undefined,  \* index at whose loop top the last run stopped, if
                             \* the item before it had completed in that run and
                             \* Start had not been clicked during the run
     resumeAt |-> Undefined, \* the checkpoint checkAndResume found when it decided
                             \* to resume with no run active, until the resumed
                             \* run has read the store, the resuming call is
                             \* turned away, or Start is clicked
     resumeFrom |-> Undefined,  \* stopTop of the run before the current one,
                             \* kept until the current run's first image reply
     resumeStop |-> FALSE]   \* STOP_AUTOMATION was handled during the settle delay
                             \* of checkAndResume with no run active; kept until
                             \* the run entered next has returned, or Start is
                             \* clicked

----------------------------------------------------------------------------
(* The world: every variable in one record, so that the synchronous         *)
(* continuations of the source compose as operators on it.                  *)

World ==
    [store |-> store, ctl |-> ctl, page |-> page, sent |-> sent, sb |-> sb,
     hist |-> [hist EXCEPT !.event = "none"]]

Becomes(w) ==
    /\ store' = w.store
    /\ ctl' = w.ctl
    /\ page' = w.page
    /\ sent' = w.sent
    /\ sb' = w.sb
    /\ hist' = w.hist
    /\ UNCHANGED <<loc, lg, ui, up, old>>

----------------------------------------------------------------------------
(* Sidebar: message handling (sidebar.js) *)

\* handleMessage: AUTOMATION_COMPLETE and AUTOMATION_STOPPED clear the sidebar's
\* isRunning; the other messages only touch the progress bar and the log
handleMessage(s, m) ==
    IF m.type \in {"AUTOMATION_COMPLETE", "AUTOMATION_STOPPED"}
    THEN [s EXCEPT !.isRunning = FALSE]
    ELSE s

----------------------------------------------------------------------------
(* Content script: the automation controller (content.js) *)

\* sendToSidebar: chrome.runtime.sendMessage, taken by the sidebar's handleMessage
sendToSidebar(w, m) ==
    [w EXCEPT !.sent = Append(@, m), !.sb = handleMessage(@, m)]

\* a checkpoint that skips an index
CheckpointSkips(index) == index + 2

\* chrome.storage.local.set({ currentIndex: index + 1 }), the checkpoint written
\* after item `index` (processItem on success, runAutomation's catch on failure)
CheckpointAfter(index) == index + 1

\* const totalItems = state.totalItems || state.queueMeta?.length || 0
TotalItemsOf(state) ==
    IF state.totalItems # Undefined /\ state.totalItems # 0 THEN state.totalItems
    ELSE IF state.queueMeta # Undefined /\ state.queueMeta # 0 THEN state.queueMeta
    ELSE 0

\* const startIndex = state.currentIndex || 0
StartIndexOf(state) ==
    IF state.currentIndex = Undefined THEN 0 ELSE state.currentIndex

\* the finally block of runAutomation
Finally(w, how) ==
    [w EXCEPT !.ctl.isRunning = FALSE, !.ctl.shouldStop = FALSE, !.ctl.pc = "idle",
              !.hist.ended = how, !.hist.resumeStop = FALSE]

\* a completion that does not look at the stop flag
AfterLoopIgnoresStop(w, how) ==
    LET a == sendToSidebar(w, AutomationComplete)
    IN  [a EXCEPT !.store.isRunning = FALSE, !.store.currentIndex = 0,
                  !.ctl.pc = "completeWrite"]

\* a completion that leaves the checkpoint where the last item put it
AfterLoopKeepsIndex(w, how) ==
    IF ~w.ctl.shouldStop
    THEN LET a == sendToSidebar(w, AutomationComplete)
         IN  [a EXCEPT !.store.isRunning = FALSE, !.ctl.pc = "completeWrite"]
    ELSE Finally(w, how)

\* after the for loop: "if (!shouldStop)" announces and persists the completion
AfterLoop(w, how) ==
    IF ~w.ctl.shouldStop
    THEN LET a == sendToSidebar(w, AutomationComplete)
         IN  [a EXCEPT !.store.isRunning = FALSE, !.store.currentIndex = 0,
                       !.ctl.pc = "completeWrite"]
    ELSE Finally(w, how)

\* a stop at the loop top that checkpoints past the item it did not process
StopAtTopCheckpoints(w) ==
    LET a == sendToSidebar(w, AutomationStopped)
    IN  AfterLoop([a EXCEPT !.store.currentIndex = CheckpointAfter(w.ctl.i)],
                  "stopped")

\* "if (shouldStop)" at the top of the loop body: announce the stop and break
StopAtTop(w) ==
    LET a == sendToSidebar(w, AutomationStopped)
        k == w.ctl.i
        after == \E n \in 1..Len(w.sent) : w.sent[n] = ItemComplete(k - 1)
    IN  AfterLoop([a EXCEPT !.hist.stopTop = IF after /\ ~w.hist.rewritten
                                             THEN k ELSE Undefined],
                  "stopped")

\* the start of the try block for index i: announce, then ask for the image
RequestImage(w) ==
    LET a == sendToSidebar(w,
                 ProgressUpdate(w.ctl.i + 1, w.ctl.totalItems, "Loading image..."))
    IN  [a EXCEPT !.ctl.pc = "fetch", !.hist.fetched = Append(@, w.ctl.i)]

\* a loop top that does not look at the stop flag
LoopTopIgnoresStop(w) ==
    IF w.ctl.i < w.ctl.totalItems
    THEN RequestImage(w)
    ELSE AfterLoop(w, IF w.ctl.shouldStop THEN "silent" ELSE "complete")

\* the loop condition and the top of the loop body for the index in ctl.i
LoopTop(w) ==
    IF w.ctl.i < w.ctl.totalItems
    THEN IF w.ctl.shouldStop
         THEN StopAtTop([w EXCEPT !.hist.event = "stopTop"])
         ELSE RequestImage(w)
    ELSE AfterLoop(w, IF w.ctl.shouldStop THEN "silent" ELSE "complete")

\* a loop increment that skips an index
NextIterationSkips(w) == LoopTop([w EXCEPT !.ctl.i = @ + 2])

\* i++ and the next evaluation of the loop
NextIteration(w) == LoopTop([w EXCEPT !.ctl.i = @ + 1])

\* a catch that reports the failure and leaves the checkpoint alone
CatchKeepsIndex(w, error) ==
    [sendToSidebar(w, ItemError(w.ctl.i, error)) EXCEPT !.ctl.pc = "errWrite"]

\* the catch of the loop body: report item i, checkpoint past it, cool down
Catch(w, error) ==
    LET a == sendToSidebar(w, ItemError(w.ctl.i, error))
    IN  [a EXCEPT !.store.currentIndex = CheckpointAfter(w.ctl.i),
                  !.ctl.pc = "errWrite"]

\* an outer catch that also takes the persisted run flag back
FatalCatchClearsRun(w, error) ==
    Finally([sendToSidebar(w, ItemError(-1, error)) EXCEPT !.store.isRunning = FALSE],
            "fatal")

\* the outer catch of runAutomation: a fatal error, reported with index -1
FatalCatch(w, error) ==
    Finally(sendToSidebar(w, ItemError(-1, error)), "fatal")

\* a wait settles: remember which wait, how, by which detection path, and whether
\* the stop flag had been set while it was pending
Settle(w, wait, outcome, by) ==
    [w EXCEPT !.hist.lastWait = [wait |-> wait, outcome |-> outcome, by |-> by,
                                 stopPending |-> w.hist.waitStop],
              !.hist.waitStop = FALSE]

\* processItem, from "Mark item complete": ITEM_COMPLETE, then the checkpoint
ItemCompleted(w) ==
    LET a == sendToSidebar(w, ItemComplete(w.ctl.i))
    IN  [a EXCEPT !.store.currentIndex = CheckpointAfter(w.ctl.i),
                  !.ctl.pc = "itemWrite"]

\* a wait for the Send button that resolves without looking at the button
SendButtonNotAwaited(w) ==
    [Settle(w, "send", "Success", "immediate") EXCEPT !.ctl.pc = "preClick"]

\* waitForSendButtonEnabled, up to the creation of its timer and observer
waitForSendButtonEnabled(w) ==
    IF w.page.btnEnabled
    THEN [Settle(w, "send", "Success", "immediate") EXCEPT !.ctl.pc = "preClick"]
    ELSE [w EXCEPT !.ctl.pc = "waitSend", !.ctl.ticks = 0,
                   !.ctl.checkInterval = TRUE, !.ctl.buttonObserver = TRUE]

\* a clickAnimateButton that returns without having clicked
clickAnimateButtonSkipsClick(w) ==
    [sendToSidebar(w, ProgressUpdate(-1, -1, "Waiting for button to glow..."))
        EXCEPT !.ctl.pc = "postClick"]

\* clickAnimateButton, up to its first await
clickAnimateButton(w) ==
    waitForSendButtonEnabled(
        sendToSidebar(w, ProgressUpdate(-1, -1, "Waiting for button to glow...")))

\* processItem, step 3: announce, then clickAnimateButton
SubmitStep(w) ==
    clickAnimateButton(
        sendToSidebar(w, ProgressUpdate(w.ctl.i + 1, w.ctl.totalItems,
                                        "Waiting for button to activate...")))

\* processItem, from its first line to the await of ensureVideoMode; the log line
\* prompt.substring(0, 50) throws when prompts[index] is undefined; blank says
\* that the prompt is empty or white space
processItem(w, blank) ==
    IF w.ctl.i >= w.ctl.prompts
    THEN Catch(w, "TypeError")
    ELSE [sendToSidebar(w, ProgressUpdate(w.ctl.i + 1, w.ctl.totalItems,
                                          "Checking mode..."))
            EXCEPT !.ctl.pc = "modeCheck", !.ctl.blank = blank]

\* a Send button poll that times out one tick early
SendButtonPollEarly(w) ==
    LET t == w.ctl.ticks + 1
        off == [w EXCEPT !.ctl.checkInterval = FALSE, !.ctl.buttonObserver = FALSE,
                         !.ctl.ticks = 0]
    IN  IF t >= ButtonTimeoutTicks
        THEN Catch(Settle(off, "send", "TimedOut", "poll"), "Timeout waiting for Send button")
        ELSE IF w.ctl.shouldStop
        THEN Catch(Settle(off, "send", "Cancelled", "poll"), "Stopped by user")
        ELSE IF w.page.btnEnabled
        THEN [Settle(off, "send", "Success", "poll") EXCEPT !.ctl.pc = "preClick"]
        ELSE [w EXCEPT !.ctl.ticks = t]

\* the interval callback of waitForSendButtonEnabled: timeout, then stop, then state
SendButtonPoll(w) ==
    LET t == w.ctl.ticks + 1
        off == [w EXCEPT !.ctl.checkInterval = FALSE, !.ctl.buttonObserver = FALSE,
                         !.ctl.ticks = 0]
    IN  IF t > ButtonTimeoutTicks
        THEN Catch(Settle(off, "send", "TimedOut", "poll"), "Timeout waiting for Send button")
        ELSE IF w.ctl.shouldStop
        THEN Catch(Settle(off, "send", "Cancelled", "poll"), "Stopped by user")
        ELSE IF w.page.btnEnabled
        THEN [Settle(off, "send", "Success", "poll") EXCEPT !.ctl.pc = "preClick"]
        ELSE [w EXCEPT !.ctl.ticks = t]

\* an observer callback that settles the wait and leaves timer and observer on
SendButtonObserverStays(w) ==
    IF w.page.btnEnabled
    THEN [Settle(w, "send", "Success", "observer") EXCEPT !.ctl.pc = "preClick"]
    ELSE w

\* the MutationObserver callback of waitForSendButtonEnabled
SendButtonObserver(w) ==
    IF w.page.btnEnabled
    THEN [Settle(w, "send", "Success", "observer")
            EXCEPT !.ctl.checkInterval = FALSE, !.ctl.buttonObserver = FALSE,
                   !.ctl.ticks = 0,
                   !.ctl.pc = "preClick"]
    ELSE w

\* a generation poll whose timeout rejects, as the Send button wait's does
GenerationPollRejects(w) ==
    LET t == w.ctl.ticks + 1
        off == [w EXCEPT !.ctl.checkInterval = FALSE, !.ctl.currentObserver = FALSE,
                         !.ctl.ticks = 0]
    IN  IF t > GenTimeoutTicks
        THEN Catch(Settle(off, "generation", "TimedOut", "poll"), "Generation timeout")
        ELSE IF w.ctl.shouldStop
        THEN Catch(Settle(off, "generation", "Cancelled", "poll"), "Stopped by user")
        ELSE IF w.page.newVideo
        THEN [Settle(off, "generation", "Success", "poll") EXCEPT !.ctl.pc = "genSettle"]
        ELSE IF w.page.btnEnabled /\ t > ReenableTicks
        THEN ItemCompleted(Settle(off, "generation", "Success", "poll"))
        ELSE [w EXCEPT !.ctl.ticks = t]

\* the interval callback of waitForGenerationComplete: timeout, then stop, then a
\* new video, then the Send button enabled again after the first 3000 ms
GenerationPoll(w) ==
    LET t == w.ctl.ticks + 1
        off == [w EXCEPT !.ctl.checkInterval = FALSE, !.ctl.currentObserver = FALSE,
                         !.ctl.ticks = 0]
    IN  IF t > GenTimeoutTicks
        THEN ItemCompleted(Settle(off, "generation", "TimedOut", "poll"))
        ELSE IF w.ctl.shouldStop
        THEN Catch(Settle(off, "generation", "Cancelled", "poll"), "Stopped by user")
        ELSE IF w.page.newVideo
        THEN [Settle(off, "generation", "Success", "poll") EXCEPT !.ctl.pc = "genSettle"]
        ELSE IF w.page.btnEnabled /\ t > ReenableTicks
        THEN ItemCompleted(Settle(off, "generation", "Success", "poll"))
        ELSE [w EXCEPT !.ctl.ticks = t]

\* the MutationObserver callback of waitForGenerationComplete
GenerationObserver(w) ==
    IF w.page.newVideo
    THEN [Settle(w, "generation", "Success", "observer")
            EXCEPT !.ctl.checkInterval = FALSE, !.ctl.currentObserver = FALSE,
                   !.ctl.ticks = 0,
                   !.ctl.pc = "genSettle"]
    ELSE w

\* whether the pending wait's predicate is already true of the page
PredicateTrue(w) ==
    \/ w.ctl.pc = "waitSend" /\ w.page.btnEnabled
    \/ w.ctl.pc = "waitGen" /\ (w.page.newVideo \/ w.page.btnEnabled)

\* whether the pending wait's timeout still lies ahead of its next poll tick
BeforeTimeout(w) ==
    \/ w.ctl.pc = "waitSend" /\ w.ctl.ticks < ButtonTimeoutTicks
    \/ w.ctl.pc = "waitGen" /\ w.ctl.ticks < GenTimeoutTicks

\* stopAutomation
stopAutomation(w) ==
    [w EXCEPT !.ctl.shouldStop = TRUE,
              !.ctl.currentObserver = FALSE,
              !.hist.stopHandled = @ \/ w.ctl.isRunning,
              !.hist.stopCtx = IF w.ctl.isRunning /\ ~w.hist.stopHandled
                               THEN [pc |-> IF w.ctl.pc \in {"waitSend", "waitGen"}
                                            THEN w.ctl.pc ELSE "elsewhere",
                                     i |-> w.ctl.i]
                               ELSE @,
              !.hist.waitStop = @ \/ (w.ctl.pc \in {"waitSend", "waitGen"}
                                      /\ ~PredicateTrue(w) /\ BeforeTimeout(w)),
              !.hist.resumeStop = @ \/ (w.ctl.resume = "settle" /\ ~w.ctl.isRunning)]

\* a guard that lets every call through
NeverRunning(w) == FALSE

\* the second-entry guard of runAutomation
AlreadyRunning(w) == w.ctl.isRunning

\* runAutomation, from the call to the await of chrome.storage.local.get
runAutomation(w) ==
    IF AlreadyRunning(w)
    THEN [w EXCEPT !.hist.event = "call"]
    ELSE [w EXCEPT !.ctl.isRunning = TRUE, !.ctl.shouldStop = FALSE,
                       !.ctl.pc = "getState",
                       !.sent = <<>>,
                       !.hist.event = "call",
                       !.hist.startIndex = Undefined,
                       !.hist.stopHandled = FALSE,
                       !.hist.stopCtx = NoStop,
                       !.hist.rewritten = FALSE,
                       !.hist.waitStop = FALSE,
                       !.hist.lastWait = NoWait,
                       !.hist.fetched = <<>>,
                       !.hist.clicks = <<>>,
                       !.hist.ended = "none",
                       !.hist.resumeFrom = w.hist.stopTop,
                       !.hist.stopTop = Undefined]

\* runAutomation, from the result of chrome.storage.local.get into the loop
QueueRead(w) ==
    LET state == w.store
        total == TotalItemsOf(state)
    IN  IF state.prompts = Undefined \/ total = 0
        THEN FatalCatch([w EXCEPT !.hist.resumeAt = Undefined],
                        "No queue found in storage")
        ELSE LoopTop([w EXCEPT !.ctl.i = StartIndexOf(state),
                               !.hist.resumeAt = Undefined,
                               !.ctl.totalItems = total,
                               !.ctl.prompts = state.prompts,
                               !.hist.startIndex = StartIndexOf(state),
                               !.hist.rewritten = FALSE])

\* the values of Math.floor(Math.random() * n) the model draws: RandomSteps values
\* of 0..n-1, the least and the greatest among them
RandomFloors(n) ==
    {(j * (n - 1)) \div (RandomSteps - 1) : j \in 0..(RandomSteps - 1)}

\* a delay that leaves out the minimum
getRandomDelayUnshifted(floor) == floor

\* getRandomDelay: Math.floor(Math.random() * (MAX_DELAY - MIN_DELAY + 1)) + MIN_DELAY,
\* for the value floor of the Math.floor
getRandomDelay(floor) == floor + MIN_DELAY

\* runAutomation after processItem returned: unless i is last, the random delay
\* (floor is what its Math.floor gives)
AfterItem(w, floor) ==
    IF w.ctl.i < w.ctl.totalItems - 1
    THEN [sendToSidebar(w, ProgressUpdate(w.ctl.i + 1, w.ctl.totalItems, "Waiting Ns..."))
            EXCEPT !.ctl.pc = "delay", !.ctl.sleep = getRandomDelay(floor)]
    ELSE NextIteration(w)

----------------------------------------------------------------------------
(* Sidebar: the Start and Stop buttons (sidebar.js) *)

\* a validation that does not compare the counts
ValidSelectionAnyCount(files, prompts) == files # 0 /\ prompts # 0

\* the validation of the Start handler: images and prompts present and equal in number
ValidSelection(files, prompts) == files # 0 /\ prompts # 0 /\ files = prompts

\* a Start handler that leaves the checkpoint where it was
StartWriteKeepsIndex(state, files, prompts) ==
    [state EXCEPT !.queue = files, !.prompts = prompts, !.isRunning = TRUE]

\* the Start handler's chrome.storage.local.set of the new queue
StartWrite(state, files, prompts) ==
    [state EXCEPT !.queue = files, !.prompts = prompts, !.currentIndex = 0,
                  !.isRunning = TRUE]

\* Start click (enabled while the sidebar's isRunning is false): validate, persist
\* the queue, set isRunning; the START_AUTOMATION message follows in StartSend
StartClick ==
    /\ ~sb.isRunning
    /\ sb.pc = "idle"
    /\ hist.starts + hist.reloads < MaxUserEvents
    /\ \E files \in 0..MaxItems, prompts \in 0..MaxItems :
          IF ValidSelection(files, prompts)
          THEN Becomes([World EXCEPT !.store = StartWrite(@, files, prompts),
                                     !.sb.isRunning = TRUE,
                                     !.sb.pc = "startSend",
                                     !.hist.starts = @ + 1,
                                     !.hist.resumeAt = Undefined,
                                     !.hist.resumeStop = FALSE,
                                     !.hist.rewritten = TRUE])
          ELSE UNCHANGED vars

\* the rest of the Start handler: the active tab is the media page and the content
\* script takes START_AUTOMATION, or the tab is another page and the run flag is
\* taken back
StartSend ==
    /\ sb.pc = "startSend"
    /\ \E tabOk \in BOOLEAN :
          IF tabOk
          THEN Becomes(runAutomation([World EXCEPT !.sb.pc = "idle"]))
          ELSE Becomes([World EXCEPT !.store.isRunning = FALSE,
                                     !.sb.isRunning = FALSE,
                                     !.sb.pc = "idle"])

\* Stop click (enabled while the sidebar's isRunning is true): the content script
\* takes STOP_AUTOMATION; the handler's storage write follows in StopWrite
StopClick ==
    /\ sb.isRunning
    /\ sb.pc = "idle"
    /\ Becomes(stopAutomation([World EXCEPT !.sb.pc = "stopWrite"]))

\* the rest of the Stop handler: persist isRunning = false
StopWrite ==
    /\ sb.pc = "stopWrite"
    /\ Becomes([World EXCEPT !.store.isRunning = FALSE,
                             !.sb.isRunning = FALSE,
                             !.sb.pc = "idle"])

----------------------------------------------------------------------------
(* Content script: auto-resume on load *)

\* a resume condition that does not look at the checkpoint
ShouldResumeAnyIndex(state) == state.isRunning

\* if (state.isRunning && state.currentIndex > 0)
ShouldResume(state) == state.isRunning /\ state.currentIndex > 0

\* checkAndResume, the result of its chrome.storage.local.get
CheckAndResume ==
    /\ ctl.resume = "get"
    /\ Becomes(IF ShouldResume(store)
               THEN [World EXCEPT !.ctl.resume = "settle",
                                  !.hist.resumeAt = IF ctl.isRunning THEN Undefined
                                                    ELSE store.currentIndex]
               ELSE [World EXCEPT !.ctl.resume = "done"])

\* checkAndResume after its sleep(2000): runAutomation()
ResumeRun ==
    /\ ctl.resume = "settle"
    /\ Becomes(runAutomation([World EXCEPT !.ctl.resume = "done",
                                           !.hist.resumeAt =
                                               IF ctl.isRunning THEN Undefined ELSE @]))

\* the page is reloaded: the content script's globals, timers and observers are
\* gone and the script loads again
PageReload ==
    /\ hist.starts + hist.reloads < MaxUserEvents
    /\ Becomes([World EXCEPT !.ctl = InitCtl, !.page = InitPage, !.sent = <<>>,
                             !.hist = [InitHist EXCEPT
                                 !.starts = hist.starts,
                                 !.reloads = hist.reloads + 1,
                                 !.stopTop = hist.stopTop,
                                 !.ended = IF ctl.isRunning THEN "reload"
                                           ELSE "none"]])

----------------------------------------------------------------------------
(* Content script: the steps of a run *)

\* Between two items the controller does not look at the page: what the page
\* showed during the last item is forgotten, and the wait record with it
BetweenItems(w) ==
    [w EXCEPT !.page = InitPage, !.hist.lastWait = NoWait]

\* chrome.storage.local.get resolves in runAutomation
ReadQueue ==
    /\ ctl.pc = "getState"
    /\ Becomes(QueueRead(World))

\* how a GET_IMAGE_DATA request can end: response.success with the image; no
\* success (chrome.runtime.lastError, or success false as the background relay
\* answers when the sidebar is not available); success without imageData
ImageReplies == {"image", "failed", "empty"}

\* a caller that passes a missing image on to processItem
ImageDataUnchecked(w, reply, blank) ==
    IF reply # "failed" THEN processItem(w, blank) ELSE Catch(w, "no image")

\* the callback of requestImageData and the check of its result in runAutomation:
\* reject, or resolve and throw if (!imageData), or go on into processItem
requestImageData(w, reply, blank) ==
    IF reply = "image" THEN processItem(w, blank) ELSE Catch(w, "no image")

\* requestImageData settles
ImageReply ==
    /\ ctl.pc = "fetch"
    /\ \E reply \in ImageReplies, blank \in BOOLEAN :
          Becomes(requestImageData([World EXCEPT !.hist.resumeFrom = Undefined,
                                                 !.hist.event = reply],
                                   reply, blank))

\* ensureVideoMode returns (its result is only logged): announce, start uploadImage
ModeChecked ==
    /\ ctl.pc = "modeCheck"
    /\ Becomes([sendToSidebar(World, ProgressUpdate(ctl.i + 1, ctl.totalItems,
                                                   "Uploading image..."))
                  EXCEPT !.ctl.pc = "upload"])

\* uploadImage returns, or throws for want of a prompt input; then setPromptText
\* if (prompt && prompt.trim().length > 0), else step 3 at once
Uploaded ==
    /\ ctl.pc = "upload"
    /\ \E found \in BOOLEAN :
          LET w == [World EXCEPT !.ctl.blank = FALSE]
          IN  Becomes(IF ~found THEN Catch(w, "no prompt input")
                      ELSE IF ctl.blank THEN SubmitStep(w)
                      ELSE [w EXCEPT !.ctl.pc = "prompt"])

\* setPromptText returns, or throws for want of a prompt input; then step 3
PromptSet ==
    /\ ctl.pc = "prompt"
    /\ \E found \in BOOLEAN :
          Becomes(IF found
                  THEN SubmitStep(World)
                  ELSE Catch(World, "no prompt input"))

\* a tick of the interval timer of waitForSendButtonEnabled
SendButtonTick ==
    /\ ctl.pc = "waitSend"
    /\ ctl.checkInterval
    /\ Becomes(SendButtonPoll(World))

\* the page changes the Send button's aria-disabled (or replaces the button); an
\* active observer of waitForSendButtonEnabled is called back with the mutation
PageSetsButton ==
    /\ ctl.pc \in {"upload", "prompt", "waitSend", "preClick", "waitGen"}
    /\ \E b \in BOOLEAN :
          /\ b # page.btnEnabled
          /\ LET w == [World EXCEPT !.page.btnEnabled = b]
             IN  Becomes(IF ctl.buttonObserver THEN SendButtonObserver(w) ELSE w)

\* clickAnimateButton after its first sleep(500): btn.click(); with the click the
\* page starts generating and shows the Send button disabled again
SendClick ==
    /\ ctl.pc = "preClick"
    /\ Becomes([World EXCEPT !.ctl.pc = "postClick",
                             !.page.btnEnabled = FALSE,
                             !.hist.clicks = Append(@, ctl.i),
                             !.hist.lastWait = NoWait])

\* clickAnimateButton returns after its second sleep(500): announce the generation,
\* waitForGenerationComplete takes startTime and sleeps 1000
Clicked ==
    /\ ctl.pc = "postClick"
    /\ Becomes([sendToSidebar(World, ProgressUpdate(ctl.i + 1, ctl.totalItems,
                                                   "Generating video..."))
                  EXCEPT !.ctl.pc = "genPre"])

\* waitForGenerationComplete after sleep(1000): count the videos, start the
\* interval timer and the observer
GenerationWaitStarts ==
    /\ ctl.pc = "genPre"
    /\ Becomes([World EXCEPT !.page.newVideo = FALSE,
                             !.ctl.ticks = 0,
                             !.ctl.checkInterval = TRUE,
                             !.ctl.currentObserver = TRUE,
                             !.ctl.pc = "waitGen"])

\* a tick of the interval timer of waitForGenerationComplete
GenerationTick ==
    /\ ctl.pc = "waitGen"
    /\ ctl.checkInterval
    /\ Becomes(GenerationPoll(World))

\* the page adds a video element; an active observer of waitForGenerationComplete
\* is called back with the mutation
PageAddsVideo ==
    /\ ctl.pc = "waitGen"
    /\ ~page.newVideo
    /\ LET w == [World EXCEPT !.page.newVideo = TRUE]
       IN  Becomes(IF ctl.currentObserver THEN GenerationObserver(w) ELSE w)

\* setTimeout(() => resolve(true), 2000) after a new video was detected
VideoSettled ==
    /\ ctl.pc = "genSettle"
    /\ Becomes(ItemCompleted(World))

\* processItem's checkpoint write resolves; back in runAutomation
ItemWritten ==
    /\ ctl.pc = "itemWrite"
    /\ \E floor \in RandomFloors(MAX_DELAY - MIN_DELAY + 1) :
          Becomes(AfterItem(BetweenItems(World), floor))

\* the random delay between two items is over
DelayOver ==
    /\ ctl.pc = "delay"
    /\ Becomes(NextIteration([World EXCEPT !.ctl.sleep = 0]))

\* the catch's checkpoint write resolves: sleep(3000)
ErrorWritten ==
    /\ ctl.pc = "errWrite"
    /\ Becomes([BetweenItems(World) EXCEPT !.ctl.pc = "cooldown",
                                            !.ctl.sleep = CooldownMs])

\* the cooldown after a failed item is over
CooldownOver ==
    /\ ctl.pc = "cooldown"
    /\ Becomes(NextIteration([World EXCEPT !.ctl.sleep = 0]))

\* the completion write resolves: finally
CompleteWritten ==
    /\ ctl.pc = "completeWrite"
    /\ Becomes(Finally(World, "complete"))

----------------------------------------------------------------------------

Init ==
    /\ store \in PersistedStores
    /\ ctl = InitCtl
    /\ page = InitPage
    /\ sent = <<>>
    /\ sb = [isRunning |-> store.isRunning, pc |-> "idle"]
    /\ hist = InitHist
    /\ loc = NoCall
    /\ lg = NoLog
    /\ ui = NoForm
    /\ up = NoUpload
    /\ old = NoOldItem

Next ==
    \/ StartClick
    \/ StartSend
    \/ StopClick
    \/ StopWrite
    \/ CheckAndResume
    \/ ResumeRun
    \/ PageReload
    \/ ReadQueue
    \/ ImageReply
    \/ ModeChecked
    \/ Uploaded
    \/ PromptSet
    \/ SendButtonTick
    \/ PageSetsButton
    \/ SendClick
    \/ Clicked
    \/ GenerationWaitStarts
    \/ GenerationTick
    \/ PageAddsVideo
    \/ VideoSettled
    \/ ItemWritten
    \/ DelayOver
    \/ ErrorWritten
    \/ CooldownOver
    \/ CompleteWritten

Spec == Init /\ [][Next]_vars

----------------------------------------------------------------------------
(* Element locator: findElementFromSelectors (content.js), on its own.       *)
(* Selectors are numbered 1..n in list order, the element a selector finds   *)
(* carries the selector's number, null is 0; in each round the page decides   *)
(* which selectors match.                                                     *)

RECURSIVE FirstMatchFromEnd(_, _, _)
\* a scan of the selector list from its end
FirstMatchFromEnd(k, n, matches) ==
    IF n < k THEN 0
    ELSE IF n \in matches THEN n
    ELSE FirstMatchFromEnd(k, n - 1, matches)

RECURSIVE FirstMatch(_, _, _)
\* for (const selector of selectors) { element = document.querySelector(selector);
\* if (element) return element }, from selector k of n
FirstMatch(k, n, matches) ==
    IF k > n THEN 0
    ELSE IF k \in matches THEN k
    ELSE FirstMatch(k + 1, n, matches)

\* one round of findElementFromSelectors over the page's current matches: return
\* the element found, or sleep before the next attempt, or return null
TryRound(l, matches) ==
    LET element == FirstMatch(1, l.selectors, matches)
        m == [l EXCEPT !.seen = Append(@, matches)]
    IN  IF element # 0 THEN [m EXCEPT !.pc = "done", !.result = element]
        ELSE IF l.sleeps < l.maxAttempts THEN [m EXCEPT !.pc = "sleep"]
        ELSE [m EXCEPT !.pc = "done", !.result = 0]

\* the selectors are tried against the page as it is now
LocatorTries ==
    /\ loc.pc = "try"
    /\ \E matches \in SUBSET (1..loc.selectors) : loc' = TryRound(loc, matches)
    /\ UNCHANGED <<store, ctl, page, sent, sb, hist, lg, ui, up, old>>

\* await sleep(delay) before the next attempt
LocatorSleeps ==
    /\ loc.pc = "sleep"
    /\ loc' = [loc EXCEPT !.pc = "try", !.sleeps = @ + 1]
    /\ UNCHANGED <<store, ctl, page, sent, sb, hist, lg, ui, up, old>>

\* a call findElementFromSelectors(selectors, maxAttempts, delay)
LocatorInit ==
    /\ store \in {st \in PersistedStores : st.prompts = Undefined}
    /\ ctl = InitCtl
    /\ page = InitPage
    /\ sent = <<>>
    /\ sb = [isRunning |-> FALSE, pc |-> "idle"]
    /\ hist = InitHist
    /\ \E n \in 0..MaxSelectors, m \in 0..MaxAttempts :
          loc = [NoCall EXCEPT !.pc = "try", !.selectors = n, !.maxAttempts = m]
    /\ lg = NoLog
    /\ ui = NoForm
    /\ up = NoUpload
    /\ old = NoOldItem

LocatorNext == LocatorTries \/ LocatorSleeps

LocatorSpec == LocatorInit /\ [][LocatorNext]_vars

----------------------------------------------------------------------------
(* Activity log: addLogEntry (sidebar.js), on its own.  Entries are numbered   *)
(* in the order of the calls.  A call issues chrome.storage.local.get; storage *)
(* answers with the logs it holds then; the callback pushes, shifts and sets.  *)

\* a push that drops the newest entry of a full log
LogPushDropsNewest(logs, entry) ==
    IF Len(logs) >= LogCapacity THEN logs ELSE Append(logs, entry)

\* logs.push(entry); if (logs.length > 50) logs.shift()
LogPush(logs, entry) ==
    LET pushed == Append(logs, entry)
    IN  IF Len(pushed) > LogCapacity THEN Tail(pushed) ELSE pushed

\* addLogEntry(message, type) with save: the entry is shown and the get is issued;
\* a call made while another is in flight overlaps it
LogCall ==
    /\ lg.appended < MaxAppends
    /\ \/ lg.calls = <<>>
       \/ Len(lg.calls) < MaxInFlight /\ lg.overlaps < MaxOverlaps
    /\ lg' = [lg EXCEPT !.appended = @ + 1,
                        !.calls = Append(@, [entry |-> lg.appended + 1,
                                             read |-> FALSE, logs |-> <<>>]),
                        !.overlaps = IF lg.calls = <<>> THEN @ ELSE @ + 1]
    /\ UNCHANGED <<store, ctl, page, sent, sb, hist, loc, ui, up, old>>

\* storage answers the oldest get not yet answered: result.logs || []
LogRead ==
    /\ \E k \in DOMAIN lg.calls :
          /\ ~lg.calls[k].read
          /\ \A j \in 1..(k - 1) : lg.calls[j].read
          /\ lg' = [lg EXCEPT !.calls[k].read = TRUE, !.calls[k].logs = lg.stored]
    /\ UNCHANGED <<store, ctl, page, sent, sb, hist, loc, ui, up, old>>

\* the callback of the oldest call runs: push, shift, chrome.storage.local.set
LogCallback ==
    /\ lg.calls # <<>>
    /\ Head(lg.calls).read
    /\ lg' = [lg EXCEPT !.stored = LogPush(Head(lg.calls).logs, Head(lg.calls).entry),
                        !.calls = Tail(@)]
    /\ UNCHANGED <<store, ctl, page, sent, sb, hist, loc, ui, up, old>>

\* the sidebar has cleared the persisted logs; no call has been made
LogInit ==
    /\ store \in {st \in PersistedStores : st.prompts = Undefined}
    /\ ctl = InitCtl
    /\ page = InitPage
    /\ sent = <<>>
    /\ sb = [isRunning |-> FALSE, pc |-> "idle"]
    /\ hist = InitHist
    /\ loc = NoCall
    /\ lg = NoLog
    /\ ui = NoForm
    /\ up = NoUpload
    /\ old = NoOldItem

LogNext == LogCall \/ LogRead \/ LogCallback

LogSpec == LogInit /\ [][LogNext]_vars

----------------------------------------------------------------------------
(* Sidebar: the form and the Start handler (sidebar.js), on their own.  The   *)
(* textarea holds lines; a line is empty, white space, a word, or a word in    *)
(* white space.  A log entry is persisted when addLogEntry is called.          *)

Lines == {"", " ", "a", " a "}

\* String.prototype.trim on the lines of the model
Trim(line) == IF line \in {"", " "} THEN "" ELSE "a"

\* the values of the textarea: value.split('\n') has at least one line
TextAreas == UNION {[1..n -> Lines] : n \in 1..MaxLines}

NonEmpty(line) == line # ""

\* getPrompts: split('\n'), map(trim), filter(length > 0)
getPrompts(text) == SelectSeq([k \in DOMAIN text |-> Trim(text[k])], NonEmpty)

\* the message of the validation that fails first, or "" when none fails
ValidationError(files, prompts) ==
    IF files = 0 THEN "Error: No images selected"
    ELSE IF prompts = 0 THEN "Error: No prompts entered"
    ELSE IF files # prompts THEN "Error: Image count != prompt count"
    ELSE ""

\* addLogEntry(message, type) with save
AddLog(u, message) == [u EXCEPT !.logs = LogPush(@, message)]

\* imageInput change: selectedFiles = Array.from(e.target.files), logged if any
FilesChosen ==
    /\ ~sb.isRunning
    /\ ui.events < MaxUserEvents
    /\ \E n \in 0..MaxItems :
          LET u == [ui EXCEPT !.files = n, !.events = @ + 1]
          IN  ui' = IF n > 0 THEN AddLog(u, "Selected images") ELSE u
    /\ UNCHANGED <<store, ctl, page, sent, sb, hist, loc, lg, up, old>>

\* the user edits the prompts textarea
PromptsTyped ==
    /\ ~sb.isRunning
    /\ \E text \in TextAreas : text # ui.text /\ ui' = [ui EXCEPT !.text = text]
    /\ UNCHANGED <<store, ctl, page, sent, sb, hist, loc, lg, up, old>>

\* startBtn click, up to await Promise.all(selectedFiles.map(fileToBase64))
EnqueueClick ==
    /\ ~sb.isRunning
    /\ ui.pc = "form"
    /\ ui.events < MaxUserEvents
    /\ LET prompts == Len(getPrompts(ui.text))
           u == [ui EXCEPT !.events = @ + 1, !.clicks = @ + 1]
       IN  ui' = IF ValidSelection(ui.files, prompts)
                 THEN [AddLog(u, "Preparing images...")
                         EXCEPT !.pc = "prepare",
                                !.held = [files |-> ui.files, prompts |-> prompts]]
                 ELSE AddLog(u, ValidationError(ui.files, prompts))
    /\ UNCHANGED <<store, ctl, page, sent, sb, hist, loc, lg, up, old>>

\* the images are read, or a FileReader fails and the handler ends there; then
\* chrome.storage.local.set of the queue, isRunning = true, the log entry, and
\* the await of chrome.tabs.query
EnqueueWrite ==
    /\ ui.pc = "prepare"
    /\ \E read \in BOOLEAN :
          IF read
          THEN /\ store' = StartWrite(store, ui.held.files, ui.held.prompts)
               /\ sb' = [sb EXCEPT !.isRunning = TRUE]
               /\ ui' = [ui EXCEPT !.pc = "send", !.logs = <<"Starting automation...">>]
          ELSE /\ ui' = [ui EXCEPT !.pc = "form"]
               /\ UNCHANGED <<store, sb>>
    /\ UNCHANGED <<ctl, page, sent, hist, loc, lg, up, old>>

\* the rest of the Start handler: no media tab; or START_AUTOMATION is sent, at
\* once or after the content script was injected; or neither send succeeds
EnqueueSend ==
    /\ ui.pc = "send"
    /\ \E outcome \in {"no tab", "sent", "injected", "failed"} :
          IF outcome \in {"sent", "injected"}
          THEN /\ ui' = [(IF outcome = "injected"
                          THEN AddLog(ui, "Injecting content script...") ELSE ui)
                           EXCEPT !.pc = "form",
                                  !.msgs = Append(@, "START_AUTOMATION")]
               /\ UNCHANGED <<store, sb>>
          ELSE /\ ui' = [AddLog(IF outcome = "failed"
                                THEN AddLog(ui, "Injecting content script...") ELSE ui,
                                IF outcome = "failed"
                                THEN "Error: Could not start automation"
                                ELSE "Error: Please navigate")
                           EXCEPT !.pc = "form"]
               /\ store' = [store EXCEPT !.isRunning = FALSE]
               /\ sb' = [sb EXCEPT !.isRunning = FALSE]
    /\ UNCHANGED <<ctl, page, sent, hist, loc, lg, up, old>>

\* the content script reports the end of the run: handleMessage
RunReported ==
    /\ ui.pc = "form"
    /\ sb.isRunning
    /\ sb' = handleMessage(sb, AutomationComplete)
    /\ ui' = AddLog(ui, "Automation complete!")
    /\ UNCHANGED <<store, ctl, page, sent, hist, loc, lg, up, old>>

\* the sidebar has loaded with nothing persisted and an empty form
EnqueueInit ==
    /\ store \in {st \in PersistedStores : st.prompts = Undefined}
    /\ ctl = InitCtl
    /\ page = InitPage
    /\ sent = <<>>
    /\ sb = [isRunning |-> FALSE, pc |-> "idle"]
    /\ hist = InitHist
    /\ loc = NoCall
    /\ lg = NoLog
    /\ ui = [NoForm EXCEPT !.pc = "form", !.text = <<"">>]
    /\ up = NoUpload
    /\ old = NoOldItem

EnqueueNext ==
    \/ FilesChosen
    \/ PromptsTyped
    \/ EnqueueClick
    \/ EnqueueWrite
    \/ EnqueueSend
    \/ RunReported

EnqueueSpec == EnqueueInit /\ [][EnqueueNext]_vars

----------------------------------------------------------------------------
(* Upload: uploadImage and waitForImagePreview (content.js), on their own.    *)
(* The page decides whether an element is found, whether dispatching throws,  *)
(* and at each poll whether an image preview is shown.                        *)

\* the upload methods in the order of the source; the fourth is tried once for
\* each input[type="file"] of the page
Methods == <<"paste", "beforeinput", "drag-drop", "file input">>

\* the current attempt ends with the outcome
Attempted(u, outcome) ==
    [u EXCEPT !.tried[Len(u.tried)].outcome = outcome, !.elapsed = 0]

\* a chain that goes on after a method's success check passed
AfterMethodIgnoresSuccess(u, outcome) ==
    LET a == Attempted(u, outcome)
    IN  IF u.method < 3 THEN [a EXCEPT !.pc = "dispatch", !.method = @ + 1]
        ELSE IF u.method = 3 THEN [a EXCEPT !.pc = "media"]
        ELSE IF u.input < u.inputs
        THEN [a EXCEPT !.pc = "dispatch", !.input = @ + 1]
        ELSE [a EXCEPT !.pc = "done", !.result = "returned"]

\* what follows an attempt: return on a preview; else the next method, after the
\* third the Add Media step, and there the next file input or the final return
AfterMethod(u, outcome) ==
    LET a == Attempted(u, outcome)
    IN  IF outcome = "preview" THEN [a EXCEPT !.pc = "done", !.result = "returned"]
        ELSE IF u.method < 3 THEN [a EXCEPT !.pc = "dispatch", !.method = @ + 1]
        ELSE IF u.method = 3 THEN [a EXCEPT !.pc = "media"]
        ELSE IF u.input < u.inputs
        THEN [a EXCEPT !.pc = "dispatch", !.input = @ + 1]
        ELSE [a EXCEPT !.pc = "done", !.result = "returned"]

\* the timeout of the current method's waitForImagePreview
PreviewTimeoutOf(u) == IF u.method = 4 THEN InputPreviewTimeout ELSE PreviewTimeout

\* findElementFromSelectors(promptInputSelectors) returns: throw without the input
UploadFind ==
    /\ up.pc = "find"
    /\ \E found \in BOOLEAN :
          up' = IF found THEN [up EXCEPT !.pc = "dispatch", !.method = 1]
                ELSE [up EXCEPT !.pc = "done", !.result = "threw"]
    /\ UNCHANGED <<store, ctl, page, sent, sb, hist, loc, lg, ui, old>>

\* the try block of the current method up to its waitForImagePreview: focus,
\* build and dispatch the events, sleep; an exception goes to the method's catch
UploadDispatch ==
    /\ up.pc = "dispatch"
    /\ \E throws \in BOOLEAN :
          LET u == [up EXCEPT !.tried = Append(@, [method |-> Methods[up.method],
                                                   outcome |-> "running"])]
          IN  up' = IF throws THEN AfterMethod(u, "threw")
                    ELSE [u EXCEPT !.pc = "check", !.elapsed = 0]
    /\ UNCHANGED <<store, ctl, page, sent, sb, hist, loc, lg, ui, old>>

\* one round of the loop of waitForImagePreview: a preview is found, or sleep(200)
UploadPreviewPoll ==
    /\ up.pc = "check"
    /\ up.elapsed < PreviewTimeoutOf(up)
    /\ \E preview \in BOOLEAN :
          up' = IF preview THEN AfterMethod(up, "preview")
                ELSE [up EXCEPT !.elapsed = @ + PreviewPollMs]
    /\ UNCHANGED <<store, ctl, page, sent, sb, hist, loc, lg, ui, old>>

\* the loop of waitForImagePreview ends with the timeout: return false
UploadPreviewTimeout ==
    /\ up.pc = "check"
    /\ up.elapsed >= PreviewTimeoutOf(up)
    /\ up' = AfterMethod(up, "no preview")
    /\ UNCHANGED <<store, ctl, page, sent, sb, hist, loc, lg, ui, old>>

\* method 4: findElementFromSelectors(addMediaBtnSelectors, 3) returns; with the
\* button, the file inputs of the page are tried one by one; else the final log
UploadMedia ==
    /\ up.pc = "media"
    /\ \E found \in BOOLEAN, n \in 0..MaxInputs :
          up' = IF found /\ n > 0
                THEN [up EXCEPT !.pc = "dispatch", !.method = 4, !.input = 1,
                                !.inputs = n]
                ELSE [up EXCEPT !.pc = "done", !.result = "returned"]
    /\ UNCHANGED <<store, ctl, page, sent, sb, hist, loc, lg, ui, old>>

\* a call uploadImage(imageData)
UploadInit ==
    /\ store \in {st \in PersistedStores : st.prompts = Undefined}
    /\ ctl = InitCtl
    /\ page = InitPage
    /\ sent = <<>>
    /\ sb = [isRunning |-> FALSE, pc |-> "idle"]
    /\ hist = InitHist
    /\ loc = NoCall
    /\ lg = NoLog
    /\ ui = NoForm
    /\ up = [NoUpload EXCEPT !.pc = "find"]
    /\ old = NoOldItem

UploadNext ==
    \/ UploadFind
    \/ UploadDispatch
    \/ UploadPreviewPoll
    \/ UploadPreviewTimeout
    \/ UploadMedia

UploadSpec == UploadInit /\ [][UploadNext]_vars

----------------------------------------------------------------------------
(* The older content script (part_002): runAutomation, processItem and        *)
(* waitForCompletion, which waits for the download button of the page.        *)
(* old.timedOut is a ghost: the items whose wait ended with the timeout.      *)

OldSend(o, type, index) ==
    [o EXCEPT !.msgs = Append(@, [type |-> type, index |-> index])]

\* the promise of waitForCompletion is settled: the interval is cleared and the
\* observer disconnected
OldSettled(o) == [o EXCEPT !.observer = FALSE, !.recheck = FALSE, !.ticks = 0]

\* catch of the loop body of runAutomation: ITEM_ERROR, skip the item, sleep(3000)
OldCatch(o) ==
    [OldSend(o, "ITEM_ERROR", o.i) EXCEPT !.currentIndex = o.i + 1,
                                         !.pc = "cooldown"]

\* resolve(downloadBtn): processItem goes on with the download
OldResolve(o) == [OldSettled(o) EXCEPT !.pc = "download"]

\* reject(error): the await in processItem throws into the catch of runAutomation
OldReject(o) == OldCatch(OldSettled(o))

\* top of the for loop of runAutomation, and what follows the loop
OldLoopTop ==
    /\ old.pc = "loop"
    /\ old' = IF old.i >= old.total
              THEN [OldSend(old, "AUTOMATION_COMPLETE", -1)
                        EXCEPT !.pc = "done", !.isRunning = FALSE,
                               !.currentIndex = 0]
              ELSE IF old.shouldStop
              THEN [OldSend(old, "AUTOMATION_STOPPED", -1)
                        EXCEPT !.pc = "done", !.shouldStop = FALSE]
              ELSE [OldSend(old, "PROGRESS_UPDATE", old.i) EXCEPT !.pc = "steps"]
    /\ UNCHANGED <<store, ctl, page, sent, sb, hist, loc, lg, ui, up>>

\* processItem up to waitForCompletion: uploadImage, setPromptText and
\* clickGenerate, any of which may throw; then 'Generating...' and the wait begins
OldSteps ==
    /\ old.pc = "steps"
    /\ \E ok \in BOOLEAN :
          old' = IF ~ok THEN OldCatch(old)
                 ELSE [OldSend(old, "PROGRESS_UPDATE", old.i)
                           EXCEPT !.pc = "wait", !.ticks = 0, !.observer = TRUE,
                                  !.recheck = FALSE]
    /\ UNCHANGED <<store, ctl, page, sent, sb, hist, loc, lg, ui, up>>

\* the page changes while the generation runs; a change that adds nodes calls
\* the MutationObserver, which resolves when the download button is there
OldPageChanges ==
    /\ old.pc = "wait"
    /\ \E btn \in BOOLEAN, spin \in BOOLEAN, childList \in BOOLEAN :
          /\ <<btn, spin>> # <<old.downloadBtn, old.spinner>>
          /\ LET o == [old EXCEPT !.downloadBtn = btn, !.spinner = spin]
             IN  old' = IF childList /\ old.observer /\ btn THEN OldResolve(o)
                        ELSE o
    /\ UNCHANGED <<store, ctl, page, sent, sb, hist, loc, lg, ui, up>>

\* the callback of setInterval in waitForCompletion: timeout, stop signal,
\* download button, and without a spinner a second look after sleep(1000)
OldPoll ==
    /\ old.pc = "wait"
    /\ old' = IF old.ticks >= GenTimeoutTicks
              THEN [OldReject(old) EXCEPT !.timedOut = @ \cup {old.i}]
              ELSE IF old.shouldStop THEN OldReject(old)
              ELSE IF old.downloadBtn THEN OldResolve(old)
              ELSE IF ~old.spinner
              THEN [old EXCEPT !.ticks = @ + 1, !.recheck = TRUE]
              ELSE [old EXCEPT !.ticks = @ + 1]
    /\ UNCHANGED <<store, ctl, page, sent, sb, hist, loc, lg, ui, up>>

\* the second look of a callback that saw no spinner
OldRecheck ==
    /\ old.pc = "wait"
    /\ old.recheck
    /\ old' = IF old.downloadBtn THEN OldResolve(old)
              ELSE [old EXCEPT !.recheck = FALSE]
    /\ UNCHANGED <<store, ctl, page, sent, sb, hist, loc, lg, ui, up>>

\* STOP_AUTOMATION: stopAutomation()
OldStop ==
    /\ old.pc # "done"
    /\ old.stops < MaxUserEvents
    /\ old' = [old EXCEPT !.shouldStop = TRUE, !.observer = FALSE,
                          !.stops = @ + 1]
    /\ UNCHANGED <<store, ctl, page, sent, sb, hist, loc, lg, ui, up>>

\* the rest of processItem: triggerDownload, ITEM_COMPLETE, the storage write;
\* then the random delay unless this was the last item
OldDownload ==
    /\ old.pc = "download"
    /\ old' = [OldSend(old, "ITEM_COMPLETE", old.i)
                  EXCEPT !.currentIndex = old.i + 1,
                         !.pc = IF old.i < old.total - 1 THEN "delay" ELSE "loop",
                         !.i = IF old.i < old.total - 1 THEN @ ELSE @ + 1]
    /\ UNCHANGED <<store, ctl, page, sent, sb, hist, loc, lg, ui, up>>

\* sleep(delay) or sleep(3000) is over: i++
OldSleepOver ==
    /\ old.pc \in {"delay", "cooldown"}
    /\ old' = [old EXCEPT !.pc = "loop", !.i = @ + 1]
    /\ UNCHANGED <<store, ctl, page, sent, sb, hist, loc, lg, ui, up>>

\* runAutomation has read queue, prompts and currentIndex
OldInit ==
    /\ store \in {st \in PersistedStores : st.prompts = Undefined}
    /\ ctl = InitCtl
    /\ page = InitPage
    /\ sent = <<>>
    /\ sb = [isRunning |-> FALSE, pc |-> "idle"]
    /\ hist = InitHist
    /\ loc = NoCall
    /\ lg = NoLog
    /\ ui = NoForm
    /\ up = NoUpload
    /\ \E total \in 1..MaxItems, startIndex \in 0..MaxItems :
          /\ startIndex <= total
          /\ old = [NoOldItem EXCEPT !.pc = "loop", !.i = startIndex,
                                     !.total = total, !.isRunning = TRUE,
                                     !.currentIndex = startIndex]

OldNext ==
    \/ OldLoopTop
    \/ OldSteps
    \/ OldPageChanges
    \/ OldPoll
    \/ OldRecheck
    \/ OldStop
    \/ OldDownload
    \/ OldSleepOver

OldSpec == OldInit /\ [][OldNext]_vars

----------------------------------------------------------------------------
(* Properties *)

Last(seq) == seq[Len(seq)]

Range(seq) == {seq[n] : n \in DOMAIN seq}

\* the messages of the current run other than progress updates, in order
IsLifecycle(m) == m.type # "PROGRESS_UPDATE"
Lifecycle == SelectSeq(sent, IsLifecycle)

\* the positions in sent of the outcome messages (ITEM_COMPLETE, ITEM_ERROR) of index k
Outcomes(k) ==
    {n \in DOMAIN sent : sent[n].type \in {"ITEM_COMPLETE", "ITEM_ERROR"}
                         /\ sent[n].index = k}

\* the last invocation of runAutomation that passed the guard has returned, and
\* the page has not been reloaded since
RunEnded ==
    ctl.pc = "idle" /\ hist.ended \in {"complete", "stopped", "silent", "fatal"}

\* the persisted checkpoint as runAutomation reads it (a missing key reads as 0)
Checkpoint(st) == IF st.currentIndex = Undefined THEN 0 ELSE st.currentIndex

\* a step of the running controller: no Start click and no reload in it
ControllerStep ==
    ctl.isRunning /\ hist'.starts = hist.starts /\ hist'.reloads = hist.reloads

\* C1: a run that read checkpoint 0 and has handled no STOP_AUTOMATION requests
\* the images of indices 0, 1, 2, ... in this order, each once: while it works on
\* index i it has requested exactly 0..i, and when its loop is over it has
\* requested exactly 0..N-1, whichever items succeeded or failed.
C1_IndicesInOrder ==
    ((ctl.isRunning \/ RunEnded) /\ hist.startIndex = 0 /\ ~hist.stopHandled) =>
        /\ \A n \in DOMAIN hist.fetched : hist.fetched[n] = n - 1
        /\ ctl.pc \notin {"idle", "getState", "completeWrite"}
              => Len(hist.fetched) = ctl.i + 1
        /\ ctl.pc \in {"idle", "completeWrite"}
              => Len(hist.fetched) = ctl.totalItems

C1_Witness ==
    /\ RunEnded
    /\ hist.startIndex = 0
    /\ ~hist.stopHandled
    /\ ctl.totalItems >= 2
    /\ ctl.prompts = ctl.totalItems
    /\ Len(hist.fetched) = ctl.totalItems
    /\ \E n \in DOMAIN sent : sent[n].type = "ITEM_ERROR"
    /\ \E n \in DOMAIN sent : sent[n].type = "ITEM_COMPLETE"

\* C2 as stated: in the steps of the running controller the persisted
\* currentIndex never decreases and never skips an index.
C2_NeverDecreases ==
    [][ControllerStep =>
          /\ Checkpoint(store') >= Checkpoint(store)
          /\ Checkpoint(store') <= Checkpoint(store) + 1]_vars

\* C2: every change the running controller makes to the persisted currentIndex is
\* either the write after item i's outcome (ITEM_COMPLETE{i} or ITEM_ERROR{i} is
\* the message just sent), which stores exactly i+1 and is a step of one from i
\* unless the sidebar's Start handler rewrote the store meanwhile, or the
\* completion write after the loop, which follows AUTOMATION_COMPLETE and resets
\* the value to 0.
C2_CheckpointWrites ==
    [][(ControllerStep /\ Checkpoint(store') # Checkpoint(store)) =>
          \/ /\ ctl'.pc \in {"itemWrite", "errWrite"}
             /\ store'.currentIndex = ctl'.i + 1
             /\ Len(sent') = Len(sent) + 1
             /\ Last(sent').type \in {"ITEM_COMPLETE", "ITEM_ERROR"}
             /\ Last(sent').index = ctl'.i
             /\ ~hist.rewritten => Checkpoint(store) = ctl'.i
          \/ /\ ctl'.pc = "completeWrite"
             /\ store'.currentIndex = 0
             /\ Last(sent') = AutomationComplete
             /\ ctl'.i >= ctl'.totalItems]_vars

C2_Witness ==
    /\ ctl.pc = "errWrite"
    /\ ctl.i = 1
    /\ store.currentIndex = 2
    /\ ~hist.rewritten
    /\ hist.startIndex = 0
    /\ ItemComplete(0) \in Range(sent)

\* C3: when a step of item i throws, the controller sends ITEM_ERROR{i} and
\* persists currentIndex = i+1 in the same step; every index the run requested
\* has at most one outcome message, exactly one once the item is over, and is
\* requested once; after the cooldown of a failed item, with no stop requested
\* and items left, the controller requests item i+1.
C3_FailureIsolation ==
    /\ [](\A k \in 0..(MaxItems - 1) :
            /\ Cardinality(Outcomes(k)) <= 1
            /\ Cardinality({n \in DOMAIN hist.fetched : hist.fetched[n] = k}) <= 1
            /\ k \notin Range(hist.fetched) => Outcomes(k) = {}
            /\ (k \in Range(hist.fetched)
                /\ (k < ctl.i \/ ctl.pc \in {"itemWrite", "delay", "errWrite",
                                             "cooldown", "completeWrite"}
                    \/ RunEnded))
                  => Cardinality(Outcomes(k)) = 1
            /\ (ctl.pc \in {"errWrite", "cooldown"} /\ k = ctl.i)
                  => \E n \in Outcomes(k) : sent[n].type = "ITEM_ERROR")
    /\ [][/\ (ctl'.pc = "errWrite" /\ ctl.pc # "errWrite")
                => /\ store'.currentIndex = ctl'.i + 1
                   /\ Len(sent') = Len(sent) + 1
                   /\ Last(sent').type = "ITEM_ERROR"
                   /\ Last(sent').index = ctl'.i
          /\ (ctl.pc = "cooldown" /\ ctl'.pc # "cooldown"
              /\ hist'.reloads = hist.reloads
              /\ ~ctl.shouldStop /\ ctl.i + 1 < ctl.totalItems)
                => ctl'.pc = "fetch" /\ ctl'.i = ctl.i + 1
                   /\ Last(hist'.fetched) = ctl.i + 1]_vars

C3_Witness ==
    /\ ctl.pc = "fetch"
    /\ ctl.i = 1
    /\ ~hist.stopHandled
    /\ store.currentIndex = 1
    /\ \E n \in Outcomes(0) : sent[n].type = "ITEM_ERROR"

\* C4 as stated: a run entered after the run before it stopped at the top of
\* index k+1, item k having completed, requests index k+1 first.
C4_ResumesAfterStop ==
    (hist.resumeFrom # Undefined /\ Len(hist.fetched) >= 1)
        => hist.fetched[1] = hist.resumeFrom

\* C5 as stated: a run of at least 2 items whose first stop was handled while
\* item 1's generation wait was pending ends, once the Stop handler is through
\* and Start has not been clicked again, without ITEM_COMPLETE{1}, with
\* AUTOMATION_STOPPED, with the persisted currentIndex at 1 and isRunning false.
C5_StopDuringGeneration ==
    (/\ RunEnded
     /\ hist.stopCtx = [pc |-> "waitGen", i |-> 1]
     /\ ctl.totalItems >= 2
     /\ sb.pc = "idle"
     /\ ~hist.rewritten)
        => /\ ItemComplete(1) \notin Range(sent)
           /\ AutomationStopped \in Range(sent)
           /\ store.currentIndex = 1
           /\ ~store.isRunning

\* the run of C6: 2 items from checkpoint 0, no stop handled, item 0 completed,
\* item 1's wait for the Send button timed out, the run has ended and Start has
\* not been clicked since
C6_Scenario ==
    /\ RunEnded
    /\ ctl.totalItems = 2
    /\ hist.startIndex = 0
    /\ ~hist.stopHandled
    /\ ~hist.rewritten
    /\ ItemComplete(0) \in Range(sent)
    /\ ItemError(1, "Timeout waiting for Send button") \in Range(sent)

\* C6 as stated: the run of the scenario leaves currentIndex = 2.
C6_FinalIndexTwo ==
    C6_Scenario =>
        /\ Lifecycle = <<ItemComplete(0),
                         ItemError(1, "Timeout waiting for Send button"),
                         AutomationComplete>>
        /\ store.currentIndex = 2
        /\ ~store.isRunning

\* C6: the run of the scenario emits ITEM_COMPLETE{0}, ITEM_ERROR{1} and
\* AUTOMATION_COMPLETE in this order and nothing else but progress updates, and
\* leaves the persisted state at currentIndex = 0 (the completion write resets
\* the checkpoint that stood at 2 after item 1) and isRunning = false.
C6_FinalIndexReset ==
    C6_Scenario =>
        /\ Lifecycle = <<ItemComplete(0),
                         ItemError(1, "Timeout waiting for Send button"),
                         AutomationComplete>>
        /\ store.currentIndex = 0
        /\ ~store.isRunning

C6_Witness == C6_Scenario /\ hist.ended = "complete" /\ store.currentIndex = 0

\* C7 as stated: when a run has ended, the last message it sent is
\* AUTOMATION_STOPPED, AUTOMATION_COMPLETE or an ITEM_ERROR.
C7_HaltSignalLast ==
    RunEnded =>
        /\ Len(sent) > 0
        /\ Last(sent).type \in {"AUTOMATION_STOPPED", "AUTOMATION_COMPLETE",
                                "ITEM_ERROR"}

\* C8 as stated: a wait during which the stop flag was set, while its predicate
\* was false and its timeout lay ahead, settles as Cancelled.
C8_StopCancelsWait ==
    hist.lastWait.stopPending => hist.lastWait.outcome = "Cancelled"

\* C9: a call of runAutomation (START_AUTOMATION or auto-resume) while a run is
\* active changes nothing of the controller (its position, index, isRunning and
\* stop flag stay), sends no message and writes nothing to storage; and at every
\* moment at most one requested item is without its outcome message.
C9_SecondEntryNoOp ==
    /\ [](Cardinality({k \in Range(hist.fetched) : Outcomes(k) = {}}) <= 1)
    /\ [][(hist'.event = "call" /\ ctl.isRunning) =>
             /\ ctl' = [ctl EXCEPT !.resume = ctl'.resume]
             /\ sent' = sent
             /\ store' = store
             /\ hist'.fetched = hist.fetched]_vars

C9_Witness ==
    /\ hist.event = "call"
    /\ ctl.isRunning
    /\ ctl.shouldStop
    /\ ctl.pc \notin {"idle", "getState"}
    /\ Len(sent) > 0

\* C10: the step in which the loop top sees the stop flag for index i appends
\* AUTOMATION_STOPPED and nothing else to the messages, which then hold it exactly
\* once, writes nothing to storage (currentIndex keeps its value), requests no
\* image, and is the run's last step.
C10_StopAtLoopTop ==
    [][hist'.event = "stopTop" =>
          /\ sent' = Append(sent, AutomationStopped)
          /\ Cardinality({n \in DOMAIN sent' : sent'[n] = AutomationStopped}) = 1
          /\ store' = store
          /\ hist'.fetched = hist.fetched
          /\ hist'.clicks = hist.clicks
          /\ ctl'.pc = "idle"
          /\ ~ctl'.isRunning
          /\ ctl'.i \notin Range(hist'.fetched)]_vars

C10_Witness ==
    /\ hist.event = "stopTop"
    /\ ctl.i >= 1
    /\ ctl.i < ctl.totalItems
    /\ store.currentIndex = ctl.i
    /\ Last(sent) = AutomationStopped

\* the number of AUTOMATION_COMPLETE messages among the sequence of messages
Completions(seq) == Cardinality({n \in DOMAIN seq : seq[n] = AutomationComplete})

\* C11: a step in which the loop condition fails with the stop flag clear sends
\* AUTOMATION_COMPLETE and writes isRunning = false and currentIndex = 0; a step
\* that sends AUTOMATION_COMPLETE is such a step, of a run that has handled no
\* stop, and the run's messages then hold it exactly once; a run that ended this
\* way leaves isRunning = false and currentIndex = 0 until Start is clicked.
C11_NormalCompletion ==
    /\ [](/\ Completions(sent) <= 1
          /\ (RunEnded /\ hist.ended = "complete" /\ ~hist.rewritten)
                => /\ Last(sent) = AutomationComplete
                   /\ store.currentIndex = 0
                   /\ ~store.isRunning)
    /\ [][/\ (ControllerStep /\ ~ctl.shouldStop
              /\ ctl.pc \in {"itemWrite", "cooldown"} /\ ctl'.pc # ctl.pc
              /\ ctl.i + 1 >= ctl.totalItems)
                => /\ sent' = Append(sent, AutomationComplete)
                   /\ ctl'.pc = "completeWrite"
          /\ Completions(sent') > Completions(sent)
                => /\ ~hist.stopHandled
                   /\ ~ctl'.shouldStop
                   /\ ctl'.i >= ctl'.totalItems
                   /\ store'.currentIndex = 0
                   /\ ~store'.isRunning
                   /\ Completions(sent') = 1]_vars

C11_Witness ==
    /\ RunEnded
    /\ hist.ended = "complete"
    /\ ~hist.rewritten
    /\ ctl.totalItems = MaxItems
    /\ Len(hist.fetched) = MaxItems
    /\ Last(sent) = AutomationComplete
    /\ store.currentIndex = 0
    /\ ~store.isRunning

\* the persisted state holds no prompts, or no item count other than 0
NoQueue(st) ==
    \/ st.prompts = Undefined
    \/ (st.totalItems \in {Undefined, 0} /\ st.queueMeta \in {Undefined, 0})

\* C12: the step in which a run reads a persisted state without prompts or with
\* an item count of 0 sends ITEM_ERROR with index -1 as the run's only message,
\* requests no image, writes nothing to storage and ends the run with the
\* in-memory isRunning false; a run ends this way only so; and the next call of
\* runAutomation passes the guard.
C12_FatalSetupError ==
    /\ []((RunEnded /\ hist.ended = "fatal")
             => /\ sent = <<ItemError(-1, "No queue found in storage")>>
                /\ hist.fetched = <<>>
                /\ hist.clicks = <<>>
                /\ ~ctl.isRunning)
    /\ [][/\ (ctl.pc = "getState" /\ ctl'.pc # "getState"
              /\ hist'.reloads = hist.reloads /\ NoQueue(store))
                => /\ hist'.ended = "fatal"
                   /\ sent' = <<ItemError(-1, "No queue found in storage")>>
                   /\ store' = store
                   /\ ctl'.pc = "idle"
                   /\ ~ctl'.isRunning
          /\ (hist'.ended = "fatal" /\ hist.ended # "fatal")
                => ctl.pc = "getState" /\ NoQueue(store)
          /\ (hist.ended = "fatal" /\ hist'.event = "call")
                => ctl'.isRunning /\ ctl'.pc = "getState"]_vars

C12_Witness ==
    /\ RunEnded
    /\ hist.ended = "fatal"
    /\ store.isRunning
    /\ store.currentIndex = 0
    /\ store.prompts # Undefined
    /\ Lifecycle = <<ItemError(-1, "No queue found in storage")>>

\* C13: checkAndResume goes on to its settle delay exactly when the persisted
\* state it reads has isRunning = true and currentIndex > 0; runAutomation is
\* called only at the end of that delay or for START_AUTOMATION; the call at the
\* end of the delay, with no run active, starts a run; and when this run reads
\* the store, Start not having been clicked since the load and the persisted
\* currentIndex still being the c found on load, it starts at c: its
\* first request is for index c, or for none when c is the item count or a stop
\* is pending.
C13_AutoResume ==
    [][/\ (ctl.resume = "get" /\ ctl'.resume # "get")
             => (ctl'.resume = "settle"
                   <=> (store.isRunning /\ store.currentIndex # Undefined
                        /\ store.currentIndex > 0))
       /\ hist'.event = "call"
             => \/ ctl.resume = "settle" /\ ctl'.resume = "done"
                \/ sb.pc = "startSend" /\ sb'.pc = "idle"
       /\ (ctl.resume = "settle" /\ ctl'.resume = "done" /\ ~ctl.isRunning)
             => ctl'.isRunning /\ ctl'.pc = "getState" /\ hist'.event = "call"
       /\ (hist.resumeAt # Undefined /\ store.currentIndex = hist.resumeAt
           /\ ctl.pc = "getState" /\ ctl'.pc # "getState"
           /\ hist'.reloads = hist.reloads)
             => /\ hist'.startIndex = hist.resumeAt
                /\ \/ hist'.fetched = <<hist.resumeAt>>
                   \/ hist'.fetched = <<>>
                      /\ (hist.resumeAt >= ctl'.totalItems \/ ctl.shouldStop)]_vars

C13_Witness ==
    /\ hist.starts = 0
    /\ ctl.pc = "fetch"
    /\ hist.startIndex = 1
    /\ hist.fetched = <<1>>
    /\ ctl.totalItems = 2

\* the number of items of the persisted queue: the length of queue where the
\* Start handler has stored one, the stored item count otherwise
PersistedTotal(st) ==
    IF st.queue # Undefined THEN st.queue
    ELSE IF st.totalItems # Undefined THEN st.totalItems
    ELSE IF st.queueMeta # Undefined THEN st.queueMeta
    ELSE 0

\* C14 as stated, for the sessions without a reload in which the last run read
\* as many prompts as items: the persisted checkpoint lies between 0 and the
\* number of items of the persisted queue.
C14_CheckpointInRange ==
    (hist.reloads = 0 /\ ctl.prompts = ctl.totalItems) =>
        /\ Checkpoint(store) >= 0
        /\ Checkpoint(store) <= PersistedTotal(store)

\* a wait has just settled in this step
WaitSettles(wait, outcome) ==
    /\ hist'.lastWait.wait = wait
    /\ hist'.lastWait.outcome = outcome
    /\ hist.lastWait.wait # wait

\* C15: the step in which the Send button wait of item i times out sends
\* ITEM_ERROR{i}, and item i has no click and no ITEM_COMPLETE; the step in which
\* the generation wait of item i times out sends ITEM_COMPLETE{i}, and item i has
\* no ITEM_ERROR.
C15_TimeoutTaxonomy ==
    /\ [](/\ (hist.lastWait.wait = "send" /\ hist.lastWait.outcome = "TimedOut")
                => /\ ctl.i \notin Range(hist.clicks)
                   /\ \A n \in Outcomes(ctl.i) : sent[n].type = "ITEM_ERROR"
          /\ (hist.lastWait.wait = "generation" /\ hist.lastWait.outcome = "TimedOut")
                => /\ ctl.i \in Range(hist.clicks)
                   /\ \A n \in Outcomes(ctl.i) : sent[n].type = "ITEM_COMPLETE")
    /\ [][/\ WaitSettles("send", "TimedOut")
                => /\ ctl.ticks + 1 > ButtonTimeoutTicks
                   /\ sent' = Append(sent, ItemError(ctl.i,
                                             "Timeout waiting for Send button"))
                   /\ ctl'.i = ctl.i
                   /\ ctl'.pc = "errWrite"
          /\ WaitSettles("generation", "TimedOut")
                => /\ ctl.ticks + 1 > GenTimeoutTicks
                   /\ sent' = Append(sent, ItemComplete(ctl.i))
                   /\ ctl'.i = ctl.i
                   /\ ctl'.pc = "itemWrite"]_vars

C15_Witness ==
    /\ hist.lastWait.wait = "generation"
    /\ hist.lastWait.outcome = "TimedOut"
    /\ ctl.pc = "itemWrite"
    /\ ctl.i = 1
    /\ Last(sent) = ItemComplete(1)
    /\ ItemError(0, "Timeout waiting for Send button") \in Range(sent)

\* C16 as stated: a poll tick of a wait at which the stop flag is set and the
\* timeout has elapsed settles the wait as Cancelled, not as TimedOut.
C16_StopBeforeTimeout ==
    [][/\ (ctl.pc = "waitSend" /\ ctl.shouldStop /\ ctl.ticks + 1 > ButtonTimeoutTicks
           /\ hist'.lastWait.wait = "send" /\ hist'.lastWait.by = "poll")
             => hist'.lastWait.outcome = "Cancelled"
       /\ (ctl.pc = "waitGen" /\ ctl.shouldStop /\ ctl.ticks + 1 > GenTimeoutTicks
           /\ hist'.lastWait.wait = "generation" /\ hist'.lastWait.by = "poll")
             => hist'.lastWait.outcome = "Cancelled"]_vars

\* the timeout of the pending wait, in poll ticks
TimeoutTicksOf(pc) == IF pc = "waitSend" THEN ButtonTimeoutTicks ELSE GenTimeoutTicks

\* C17: a pending wait has seen no more poll ticks than fit into its timeout; its
\* tick count, taken from the wait's start, moves only by one per poll tick and
\* not when the page changes; a wait settles as TimedOut only at the first tick
\* past the timeout, and at that tick it does settle so when no stop is pending
\* and its predicate is false.
C17_TimeoutTiming ==
    /\ [](ctl.pc \in {"waitSend", "waitGen"} => ctl.ticks <= TimeoutTicksOf(ctl.pc))
    /\ [][/\ (ctl.pc \in {"waitSend", "waitGen"} /\ ctl'.pc = ctl.pc)
                => /\ ctl'.ticks \in {ctl.ticks, ctl.ticks + 1}
                   /\ page' # page => ctl'.ticks = ctl.ticks
          /\ (WaitSettles("send", "TimedOut") \/ WaitSettles("generation", "TimedOut"))
                => /\ ctl.pc \in {"waitSend", "waitGen"}
                   /\ ctl.ticks = TimeoutTicksOf(ctl.pc)
                   /\ hist'.lastWait.by = "poll"
                   /\ page' = page
          /\ (ctl.pc \in {"waitSend", "waitGen"} /\ ctl.ticks < TimeoutTicksOf(ctl.pc))
                => hist'.lastWait.outcome # "TimedOut"
          /\ (ctl.pc \in {"waitSend", "waitGen"} /\ ctl.ticks = TimeoutTicksOf(ctl.pc)
              /\ page' = page /\ ctl'.shouldStop = ctl.shouldStop
              /\ hist'.reloads = hist.reloads /\ hist'.starts = hist.starts
              /\ (ctl'.pc # ctl.pc \/ ctl'.ticks # ctl.ticks))
                => hist'.lastWait.outcome = "TimedOut"]_vars

C17_Witness ==
    /\ hist.lastWait = [wait |-> "send", outcome |-> "TimedOut", by |-> "poll",
                        stopPending |-> FALSE]
    /\ ~hist.stopHandled
    /\ ctl.pc = "errWrite"
    /\ ~page.btnEnabled

\* a wait settles in this step
SettleStep == hist'.lastWait # hist.lastWait /\ hist'.lastWait.wait # "none"

\* C18: an interval timer or an observer of a wait is active only while that wait
\* is pending; a step that settles a wait (by poll or by observer) settles a wait
\* that had not settled before and leaves no timer and no observer active.
C18_OneShotCompletion ==
    /\ [](/\ ctl.checkInterval <=> ctl.pc \in {"waitSend", "waitGen"}
          /\ ctl.buttonObserver <=> ctl.pc = "waitSend"
          /\ ctl.currentObserver => ctl.pc = "waitGen")
    /\ [][SettleStep =>
             /\ hist.lastWait = NoWait
             /\ hist'.lastWait.wait = "send"
                   => ctl.pc \in {"upload", "prompt", "waitSend"}
             /\ hist'.lastWait.wait = "generation" => ctl.pc = "waitGen"
             /\ hist'.lastWait.by # "immediate" => ctl.checkInterval
             /\ hist'.lastWait.by = "observer"
                   => ctl.buttonObserver \/ ctl.currentObserver
             /\ ~ctl'.checkInterval
             /\ ~ctl'.buttonObserver
             /\ ~ctl'.currentObserver
             /\ ctl'.pc \notin {"waitSend", "waitGen"}]_vars

C18_Witness ==
    /\ hist.lastWait.wait = "generation"
    /\ hist.lastWait.by = "observer"
    /\ ctl.pc = "genSettle"
    /\ ctl.i = 1
    /\ ~ctl.checkInterval
    /\ ~ctl.currentObserver
    /\ \E n \in DOMAIN hist.clicks : hist.clicks[n] = 0

\* C19 as stated: at most one observer of the waits is active at a time, and
\* after the step in which stopAutomation has run no observer is active.
C19_NoObserverAfterStop ==
    /\ [](~(ctl.buttonObserver /\ ctl.currentObserver))
    /\ [][(sb.pc = "idle" /\ sb'.pc = "stopWrite")
             => (~ctl'.buttonObserver /\ ~ctl'.currentObserver)]_vars

\* the smallest number of a set of selector numbers
Lowest(matches) == CHOOSE k \in matches : \A j \in matches : k <= j

\* C20: a call that has returned has looked at the page in rounds 1..Len(seen),
\* one sleep between two rounds; no selector matched in any round before the
\* last; it returned an element exactly when some selector matched in the last
\* round, and then the element of the lowest-numbered matching selector; it
\* returned null exactly when no selector matched in any round, and then it has
\* tried maxAttempts + 1 rounds and slept maxAttempts times.
C20_ElementLocator ==
    loc.pc = "done" =>
        LET rounds == Len(loc.seen)
        IN  /\ rounds >= 1
            /\ loc.sleeps = rounds - 1
            /\ rounds <= loc.maxAttempts + 1
            /\ \A r \in 1..(rounds - 1) : loc.seen[r] \cap (1..loc.selectors) = {}
            /\ loc.seen[rounds] # {}
                  => loc.result = Lowest(loc.seen[rounds])
            /\ loc.seen[rounds] = {}
                  => /\ loc.result = 0
                     /\ rounds = loc.maxAttempts + 1
                     /\ loc.sleeps = loc.maxAttempts

C20_Witness ==
    /\ loc.pc = "done"
    /\ loc.selectors = 3
    /\ Len(loc.seen) = 2
    /\ loc.seen[2] = {2, 3}
    /\ loc.result = 2

\* the messages this step passed to sendToSidebar
SentInStep == SubSeq(sent', Len(sent) + 1, Len(sent'))

\* the step resumes the run's code: no reload in it, and sent has only grown
RunStep ==
    /\ ctl.isRunning
    /\ hist'.reloads = hist.reloads
    /\ Len(sent') >= Len(sent)
    /\ SubSeq(sent', 1, Len(sent)) = sent

\* C30 as stated: the step in which clickAnimateButton clicks the Send button
\* finds the button enabled (aria-disabled not 'true'), whatever the page did to
\* the button since the enablement wait ended.
C30_SubmitGate ==
    [][Len(hist'.clicks) > Len(hist.clicks) => page.btnEnabled]_vars

\* the persisted state holds a queue in the old format: the keys queue and
\* prompts of the sidebar's Start handler
OldFormat(st) ==
    st.queue \notin {Undefined, 0} /\ st.prompts \notin {Undefined, 0}

\* the persisted state holds a queue in the new format: prompts with an item
\* count in totalItems or queueMeta
NewFormat(st) ==
    /\ st.prompts \notin {Undefined, 0}
    /\ (st.totalItems \notin {Undefined, 0} \/ st.queueMeta \notin {Undefined, 0})

\* C27 as stated: the step in which runAutomation takes the persisted state
\* raises 'No queue found in storage' only when the state holds neither format;
\* from a state in the old format it goes into the loop with the queue's length
\* as the item count and the persisted checkpoint as the first index.
C27_BothQueueFormats ==
    [][(ctl.pc = "getState" /\ ctl'.pc # "getState" /\ hist'.reloads = hist.reloads)
          => /\ ItemError(-1, "No queue found in storage") \in Range(sent')
                  => ~OldFormat(store) /\ ~NewFormat(store)
             /\ (OldFormat(store) /\ ~NewFormat(store))
                  => /\ ctl'.totalItems = store.queue
                     /\ hist'.startIndex = Checkpoint(store)]_vars

\* the step changes the persisted run state
RunStateWritten ==
    store'.currentIndex # store.currentIndex \/ store'.isRunning # store.isRunning

\* the step is one of a sidebar handler: the Start click, the rest of the Start
\* handler, or the Stop handler's write
SidebarStep ==
    \/ hist'.starts # hist.starts
    \/ sb.pc \in {"startSend", "stopWrite"} /\ sb'.pc = "idle"

\* C25 as stated: the persisted currentIndex and isRunning change only in steps
\* of the automation controller, never in a step of a sidebar handler.
C25_SingleWriter ==
    [][RunStateWritten => ~SidebarStep]_vars

\* C25: the persisted run state has three writers.  The controller writes the
\* checkpoint i+1 after item i and, at completion, currentIndex = 0 with
\* isRunning = false; the sidebar's Start click writes currentIndex = 0 with
\* isRunning = true; the rest of the Start handler (no media tab) and the Stop
\* handler write isRunning = false and leave currentIndex alone.  So only the
\* controller stores a currentIndex other than 0, and only the Start click
\* stores isRunning = true.
C25_RunStateWriters ==
    [][RunStateWritten =>
          \/ /\ hist'.starts # hist.starts
             /\ store'.currentIndex = 0
             /\ store'.isRunning
          \/ /\ sb.pc \in {"startSend", "stopWrite"} /\ sb'.pc = "idle"
             /\ store'.currentIndex = store.currentIndex
             /\ ~store'.isRunning
          \/ /\ ~SidebarStep
             /\ RunStep
             /\ \/ /\ store'.currentIndex = CheckpointAfter(ctl.i)
                   /\ store'.isRunning = store.isRunning
                   /\ Len(SentInStep) >= 1
                   /\ Last(SentInStep).type \in {"ITEM_COMPLETE", "ITEM_ERROR"}
                   /\ Last(SentInStep).index = ctl.i
                \/ /\ store'.currentIndex = 0
                   /\ ~store'.isRunning
                   /\ Last(sent') = AutomationComplete]_vars

C25_Witness ==
    /\ hist.starts = 1
    /\ hist.reloads = 0
    /\ hist.stopHandled
    /\ ItemComplete(0) \in Range(sent)
    /\ store.currentIndex = 1
    /\ ~store.isRunning
    /\ sb.pc = "idle"
    /\ ~hist.rewritten

\* the statuses of the progress updates the controller sends, by the step they name
StepStatuses ==
    [load |-> "Loading image...", mode |-> "Checking mode...",
     upload |-> "Uploading image...", submit |-> "Waiting for button to activate...",
     glow |-> "Waiting for button to glow...", generation |-> "Generating video...",
     delay |-> "Waiting Ns..."]

\* this step passed a PROGRESS_UPDATE for the item in work with one of the statuses
ProgressInStep(statuses) ==
    \E n \in DOMAIN SentInStep :
        /\ SentInStep[n].type = "PROGRESS_UPDATE"
        /\ SentInStep[n].current = ctl'.i + 1
        /\ SentInStep[n].total = ctl'.totalItems
        /\ SentInStep[n].status \in statuses

\* this step of the run leaves a position in from and starts the primitive whose
\* positions are to
StartsPrimitive(from, to) ==
    RunStep /\ ctl.pc \in from /\ ctl'.pc \in to

\* C22 as stated: the step that starts the mode check, the upload, the prompt
\* entry, the wait for the Send button or the generation wait of item i has,
\* after the step before ended, passed a PROGRESS_UPDATE for item i that names
\* the step it starts.
C22_ProgressBeforeStep ==
    [][/\ StartsPrimitive({"fetch"}, {"modeCheck"})
            => ProgressInStep({StepStatuses.mode})
       /\ StartsPrimitive({"modeCheck"}, {"upload"})
            => ProgressInStep({StepStatuses.upload})
       /\ StartsPrimitive({"upload"}, {"prompt"})
            => ProgressInStep({s \in STRING : s \notin Range(StepStatuses)})
       /\ StartsPrimitive({"upload", "prompt"}, {"waitSend", "preClick"})
            => ProgressInStep({StepStatuses.submit})
       /\ StartsPrimitive({"postClick"}, {"genPre"})
            => ProgressInStep({StepStatuses.generation})]_vars

\* the positions a step of processItem may go to from a position, when the
\* prompt is blank or not, apart from the catch of the loop body
NextInProtocol(pc, blank) ==
    CASE pc = "modeCheck" -> {"upload"}
      [] pc = "upload"    -> IF blank THEN {"waitSend", "preClick"} ELSE {"prompt"}
      [] pc = "prompt"    -> {"waitSend", "preClick"}
      [] pc = "waitSend"  -> {"preClick"}
      [] pc = "preClick"  -> {"postClick"}
      [] pc = "postClick" -> {"genPre"}
      [] pc = "genPre"    -> {"waitGen"}
      [] pc = "waitGen"   -> {"genSettle", "itemWrite"}
      [] pc = "genSettle" -> {"itemWrite"}
      [] OTHER            -> {}

\* the positions of processItem at which an awaited step can throw
ThrowingSteps == {"upload", "prompt", "waitSend", "waitGen"}

\* C23: within one item the controller moves mode check, upload, prompt entry
\* (skipped exactly when the prompt is blank), wait for Send enabled, Send click,
\* generation wait, ITEM_COMPLETE, one position at a time and for one index; the
\* wait for Send ends, unless it throws, with the button enabled; the only other
\* way out of a step is its throw, which reports ITEM_ERROR for the item and
\* leads to the cooldown and then to the next index or the end of the loop; and
\* ITEM_COMPLETE is sent only in the step that settles the generation wait
\* (found, or timed out) or ends the delay after the new video, for an item whose
\* Send button was clicked.
C23_ProtocolOrder ==
    [][(RunStep /\ ctl'.pc # ctl.pc) =>
          /\ ctl.pc \in {"modeCheck", "upload", "prompt", "waitSend", "preClick",
                         "postClick", "genPre", "waitGen", "genSettle"}
                => /\ \/ ctl'.pc \in NextInProtocol(ctl.pc, ctl.blank)
                      \/ ctl.pc \in ThrowingSteps /\ ctl'.pc = "errWrite"
                   /\ ctl'.i = ctl.i
          /\ (ctl'.pc = "preClick" /\ ctl.pc # "preClick") => page'.btnEnabled
          /\ ctl'.pc = "postClick" => hist'.clicks = Append(hist.clicks, ctl.i)
          /\ ctl'.pc = "errWrite"
                => /\ Len(SentInStep) >= 1
                   /\ Last(SentInStep).type = "ITEM_ERROR"
                   /\ Last(SentInStep).index = ctl.i
          /\ ctl.pc = "errWrite" => ctl'.pc = "cooldown" /\ ctl'.i = ctl.i
          /\ ctl.pc = "cooldown"
                => /\ ctl'.pc \in {"fetch", "completeWrite", "idle"}
                   /\ ctl'.i = ctl.i + 1
          /\ (\E n \in DOMAIN SentInStep : SentInStep[n].type = "ITEM_COMPLETE")
                => /\ SentInStep = <<ItemComplete(ctl.i)>>
                   /\ ctl.pc \in {"waitGen", "genSettle"}
                   /\ ctl'.pc = "itemWrite"
                   /\ hist'.lastWait.wait = "generation"
                   /\ hist'.lastWait.outcome \in {"Success", "TimedOut"}
                   /\ Len(hist.clicks) >= 1
                   /\ Last(hist.clicks) = ctl.i]_vars

C23_Witness ==
    /\ ctl.pc = "itemWrite"
    /\ ctl.i = 1
    /\ hist.startIndex = 0
    /\ hist.clicks = <<0, 1>>
    /\ Lifecycle = <<ItemComplete(0), ItemComplete(1)>>
    /\ hist.lastWait.wait = "generation"
    /\ hist.lastWait.outcome = "Success"

\* this step of the run begins the item after the one in work
NextItemBegins == RunStep /\ ctl'.pc = "fetch" /\ ctl.pc # "getState" /\ ctl'.i = ctl.i + 1

\* C29 as stated: the next item begins only out of a sleep of a delay between
\* MIN_DELAY and MAX_DELAY, whether the item before it succeeded or failed.
C29_DelayAfterEveryItem ==
    [][NextItemBegins => /\ ctl.pc = "delay"
                         /\ MIN_DELAY <= ctl.sleep /\ ctl.sleep <= MAX_DELAY]_vars

\* C29: after an item that completed and is not the last the controller sleeps
\* a delay d of getRandomDelay, MIN_DELAY <= d <= MAX_DELAY, and then goes to the
\* next index; after the last item it sleeps no such delay; after an item that
\* failed, last or not, it sleeps the fixed cooldown of 3000 ms instead; and the
\* next item begins only out of one of these two sleeps.
C29_InterItemPacing ==
    [][/\ (RunStep /\ ctl.pc = "itemWrite" /\ ctl'.pc # "itemWrite")
            => IF ctl.i < ctl.totalItems - 1
               THEN /\ ctl'.pc = "delay"
                    /\ MIN_DELAY <= ctl'.sleep /\ ctl'.sleep <= MAX_DELAY
                    /\ ctl'.i = ctl.i
               ELSE ctl'.pc \in {"completeWrite", "idle"} /\ ctl'.sleep = 0
       /\ (RunStep /\ ctl'.pc = "delay" /\ ctl.pc # "delay")
            => /\ ctl.pc = "itemWrite"
               /\ Last(Lifecycle) = ItemComplete(ctl.i)
               /\ ctl.i < ctl.totalItems - 1
       /\ (RunStep /\ ctl.pc = "errWrite" /\ ctl'.pc # "errWrite")
            => ctl'.pc = "cooldown" /\ ctl'.sleep = CooldownMs /\ ctl'.i = ctl.i
       /\ (RunStep /\ ctl'.pc = "cooldown" /\ ctl.pc # "cooldown")
            => /\ ctl.pc = "errWrite"
               /\ Last(Lifecycle).type = "ITEM_ERROR"
               /\ Last(Lifecycle).index = ctl.i
       /\ NextItemBegins
            => \/ /\ ctl.pc = "delay"
                  /\ MIN_DELAY <= ctl.sleep /\ ctl.sleep <= MAX_DELAY
               \/ ctl.pc = "cooldown" /\ ctl.sleep = CooldownMs
       /\ (ctl'.sleep # 0 /\ ctl'.sleep # ctl.sleep) => ctl'.pc \in {"delay", "cooldown"}]_vars

C29_Witness ==
    /\ ctl.pc = "delay"
    /\ ctl.sleep = MAX_DELAY
    /\ ctl.i = 0
    /\ ctl.totalItems = 2
    /\ Last(Lifecycle) = ItemComplete(0)

\* the most recent min(n, LogCapacity) of the entries 1..n, in the order of the calls
MostRecent(n) ==
    LET k == IF n < LogCapacity THEN n ELSE LogCapacity
    IN  [j \in 1..k |-> n - k + j]

\* C21: as long as no call of addLogEntry was made while another was in flight,
\* the persisted logs hold at most 50 entries and are the most recent min(n, 50)
\* of the n entries whose calls have completed, in call order; after 51 completed
\* calls entry 1 is gone and entries 2..51 remain.
C21_LogRingBuffer ==
    lg.overlaps = 0 =>
        /\ Len(lg.stored) <= LogCapacity
        /\ lg.stored = MostRecent(lg.appended - Len(lg.calls))
        /\ (lg.appended = LogCapacity + 1 /\ lg.calls = <<>>)
              => lg.stored = [j \in 1..LogCapacity |-> j + 1]

C21_Witness ==
    /\ lg.overlaps = 0
    /\ lg.calls = <<>>
    /\ lg.appended = LogCapacity + 1
    /\ Len(lg.stored) = LogCapacity
    /\ lg.stored[1] = 2
    /\ lg.stored[LogCapacity] = LogCapacity + 1

\* the Start button was clicked in this step
StartClicked == ui'.clicks = ui.clicks + 1

\* the selection the Start handler validates is valid: as many images as
\* non-empty prompt lines, and more than 0
ValidForm == ui.files > 0 /\ ui.files = Len(getPrompts(ui.text))

\* every persisted queue has equally many images and prompts, and at least one
QueuesBalanced ==
    store.queue # Undefined => store.queue = store.prompts /\ store.queue > 0

\* the queue is written and START_AUTOMATION is sent only by a handler whose
\* selection was valid
OnlyValidEnqueued ==
    /\ (store'.queue # store.queue \/ store'.prompts # store.prompts)
          => /\ ui.pc = "prepare"
             /\ ui.held.files = ui.held.prompts /\ ui.held.files > 0
             /\ store'.queue = ui.held.files /\ store'.prompts = ui.held.prompts
    /\ ui'.msgs # ui.msgs
          => /\ ui.pc = "send"
             /\ ui'.msgs = Append(ui.msgs, "START_AUTOMATION")
             /\ ui.held.files = ui.held.prompts /\ ui.held.files > 0
             /\ store.queue = ui.held.files /\ store.prompts = ui.held.prompts
    /\ (StartClicked /\ ValidForm)
          => /\ ui'.pc = "prepare"
             /\ ui'.held = [files |-> ui.files, prompts |-> ui.files]

\* C26 as stated: the Start handler writes a queue and sends START_AUTOMATION
\* only for a valid selection, every persisted queue is balanced, and a click
\* with an invalid selection changes no persisted state (logs included) and
\* sends nothing.
C26_EnqueueValidation ==
    /\ []QueuesBalanced
    /\ [][/\ OnlyValidEnqueued
          /\ (StartClicked /\ ~ValidForm)
                => /\ store' = store
                   /\ ui'.logs = ui.logs
                   /\ ui'.msgs = ui.msgs
                   /\ ui'.pc = "form"]_vars

\* C26: the Start handler writes a queue and sends START_AUTOMATION only for a
\* valid selection, and every persisted queue is balanced; a click with an
\* invalid selection writes none of queue, prompts, currentIndex, isRunning and
\* sends nothing, but appends the error that failed the validation to the
\* persisted logs.
C26_EnqueueValidationLogged ==
    /\ []QueuesBalanced
    /\ [][/\ OnlyValidEnqueued
          /\ (StartClicked /\ ~ValidForm)
                => /\ store' = store
                   /\ ui'.logs = LogPush(ui.logs,
                          ValidationError(ui.files, Len(getPrompts(ui.text))))
                   /\ ValidationError(ui.files, Len(getPrompts(ui.text))) # ""
                   /\ ui'.msgs = ui.msgs
                   /\ ui'.pc = "form"]_vars

C26_Witness ==
    /\ ui.files = 1
    /\ ui.text = <<" ", " a ">>
    /\ store.queue = 1
    /\ store.prompts = 1
    /\ store.currentIndex = 0
    /\ store.isRunning
    /\ ui.msgs = <<"START_AUTOMATION">>

\* the methods attempted so far are, in order, a beginning of paste,
\* beforeinput, drag-drop, and then file inputs only
InMethodOrder ==
    \A k \in DOMAIN up.tried :
        up.tried[k].method = IF k <= 3 THEN Methods[k] ELSE Methods[4]

\* no method was attempted after one whose success check passed, and uploadImage
\* returned then
StopsAtFirstSuccess ==
    \A k \in DOMAIN up.tried :
        up.tried[k].outcome = "preview"
            => k = Len(up.tried) /\ up.pc = "done" /\ up.result = "returned"

\* uploadImage ends by returning, unless the prompt input was not found, in
\* which case it throws before any method; when no method succeeded it has tried
\* paste, beforeinput and drag-drop
ReturnsNormally ==
    up.pc = "done" =>
        /\ up.result \in {"returned", "threw"}
        /\ up.result = "threw" => up.tried = <<>>
        /\ (up.result = "returned"
            /\ \A k \in DOMAIN up.tried : up.tried[k].outcome # "preview")
              => Len(up.tried) >= 3

\* C24 as stated: the methods are attempted in the fixed order, each only after
\* every method before it ran to completion and failed its success check, none
\* after the first success, and uploadImage returns normally when all fail.
C24_UploadFallbackChain ==
    /\ InMethodOrder
    /\ \A k \in DOMAIN up.tried :
          \A j \in 1..(k - 1) : up.tried[j].outcome = "no preview"
    /\ StopsAtFirstSuccess
    /\ ReturnsNormally

\* C24: the methods are attempted in the fixed order, each only after every
\* method before it has ended, either with its success check failed or with an
\* exception that its catch block swallowed, none after the first success, and
\* uploadImage returns normally when all fail.
C24_UploadFallbackChainCaught ==
    /\ InMethodOrder
    /\ \A k \in DOMAIN up.tried :
          \A j \in 1..(k - 1) : up.tried[j].outcome \in {"no preview", "threw"}
    /\ StopsAtFirstSuccess
    /\ ReturnsNormally

C24_Witness ==
    /\ up.pc = "done"
    /\ up.result = "returned"
    /\ up.tried = <<[method |-> "paste", outcome |-> "no preview"],
                    [method |-> "beforeinput", outcome |-> "threw"],
                    [method |-> "drag-drop", outcome |-> "no preview"],
                    [method |-> "file input", outcome |-> "no preview"]>>

OldSent(type, index) ==
    \E k \in DOMAIN old.msgs : old.msgs[k] = [type |-> type, index |-> index]

\* processItem(i) of the older content script is over
OldItemOver(i) == old.i > i \/ (old.i = i /\ old.pc \in {"delay", "cooldown"})

\* C28 as stated: in the older content script an item whose generation wait ran
\* into the timeout is not failed: no ITEM_ERROR{i} is sent for it and, once the
\* item is over, ITEM_COMPLETE{i} has been sent.
C28_TimeoutProceedsAnyway ==
    \A i \in old.timedOut :
        /\ ~OldSent("ITEM_ERROR", i)
        /\ OldItemOver(i) => OldSent("ITEM_COMPLETE", i)

\* the pcs at which a step of processItem is pending
ProcessItemPcs ==
    {"modeCheck", "upload", "prompt", "waitSend", "preClick", "postClick", "genPre",
     "waitGen", "genSettle", "itemWrite"}

\* the run's last message reports that the image of the index in work was not got
FetchFailedLast ==
    sent # <<>> /\ Last(sent) = ItemError(ctl.i, "no image")

\* C31: a step that settles a GET_IMAGE_DATA request settles the one request that
\* is pending, for the index in work, and leaves none pending; when the reply is
\* without success or without an image, that step sends ITEM_ERROR{i} and persists
\* currentIndex = i+1, no step of processItem runs for i, and after the cooldown
\* the loop goes on with i+1: it requests image i+1 if no stop is pending and
\* items are left, and the run does not end as a fatal error.
C31_LazyFetchFailure ==
    /\ [](/\ hist.event \in {"failed", "empty"}
               => /\ ctl.pc = "errWrite"
                  /\ FetchFailedLast
                  /\ store.currentIndex = ctl.i + 1
          /\ (ctl.isRunning /\ ItemError(ctl.i, "no image") \in Range(sent))
               => ctl.pc \in {"errWrite", "cooldown"})
    /\ [][/\ hist'.event \in ImageReplies
               => /\ ctl.pc = "fetch"
                  /\ ctl'.pc # "fetch"
                  /\ Last(hist.fetched) = ctl.i
                  /\ hist'.fetched = hist.fetched
                  /\ ctl'.i = ctl.i
                  /\ hist'.event # "image"
                        => sent' = Append(sent, ItemError(ctl.i, "no image"))
          /\ (ctl.pc = "fetch" /\ ctl'.pc # "fetch" /\ hist'.reloads = hist.reloads)
               => hist'.event \in ImageReplies
          /\ (ctl.pc = "cooldown" /\ ctl'.pc # "cooldown" /\ FetchFailedLast
              /\ hist'.reloads = hist.reloads)
               => /\ ctl'.i = ctl.i + 1
                  /\ hist'.ended # "fatal"
                  /\ (~ctl.shouldStop /\ ctl.i + 1 < ctl.totalItems)
                        => /\ ctl'.pc = "fetch"
                           /\ Last(hist'.fetched) = ctl.i + 1]_vars

C31_Witness ==
    /\ ctl.pc = "fetch"
    /\ ctl.i = 1
    /\ hist.fetched = <<0, 1>>
    /\ Lifecycle = <<ItemError(0, "no image")>>
    /\ store.currentIndex = 1

\* the pcs at which the for loop of runAutomation has not yet been left
InLoopPcs == ProcessItemPcs \cup {"fetch", "delay", "errWrite", "cooldown"}

\* C32: once stopAutomation has set the stop flag while a run is active, the flag
\* stays set for as long as that run is active (so until its loop has exited),
\* and the run begins no further item: it requests no image and is at no step of
\* processItem for an index greater than the one in work when the stop was
\* handled, and a step of the run after the stop adds no request.
C32_StopSticky ==
    /\ []((hist.stopHandled /\ ctl.isRunning)
             => /\ ctl.shouldStop
                /\ \A n \in DOMAIN hist.fetched : hist.fetched[n] <= hist.stopCtx.i
                /\ ctl.pc \in InLoopPcs => ctl.i <= hist.stopCtx.i)
    /\ [][(hist.stopHandled /\ ctl.isRunning /\ hist'.reloads = hist.reloads)
             => /\ hist'.fetched = hist.fetched
                /\ ctl'.shouldStop \/ ~ctl'.isRunning
                /\ ctl'.pc \in InLoopPcs => ctl'.i = ctl.i /\ ctl.pc \in InLoopPcs]_vars

C32_Witness ==
    /\ RunEnded
    /\ hist.ended = "stopped"
    /\ hist.stopHandled
    /\ hist.stopCtx = [pc |-> "waitGen", i |-> 0]
    /\ hist.fetched = <<0>>
    /\ ctl.totalItems = 2
    /\ ItemComplete(0) \in Range(sent)

\* the positions in sent of AUTOMATION_COMPLETE and AUTOMATION_STOPPED
Terminals ==
    {n \in DOMAIN sent : sent[n].type \in {"AUTOMATION_COMPLETE", "AUTOMATION_STOPPED"}}

\* C33 as stated: a run that passed the guard and found a valid queue sends at
\* most one of AUTOMATION_COMPLETE and AUTOMATION_STOPPED, sends nothing after
\* it, and has sent one of them when it has returned.
C33_TerminalEvent ==
    /\ Cardinality(Terminals) <= 1
    /\ \A n \in Terminals : n = Len(sent)
    /\ (RunEnded /\ hist.ended # "fatal") => Cardinality(Terminals) = 1

\* C34 as stated: the START_AUTOMATION that the Start handler sends for a valid
\* queue is not turned away by the second-entry guard, so that a run for the new
\* queue is entered, and while the new queue waits for its run no step changes
\* its persisted currentIndex.
C34_NoLostStart ==
    [][/\ (sb.pc = "startSend" /\ hist'.event = "call")
            => ~ctl.isRunning /\ ctl'.isRunning /\ ctl'.pc = "getState"
       /\ (hist.rewritten /\ hist'.rewritten /\ hist'.starts = hist.starts)
            => store'.currentIndex = store.currentIndex]_vars

\* C35 as stated: a run entered by checkAndResume after STOP_AUTOMATION was
\* handled during the settle delay requests no image and is at no step of an item.
C35_StopWinsOverResume ==
    (hist.resumeStop /\ ctl.isRunning)
        => hist.fetched = <<>> /\ ctl.pc \notin InLoopPcs

\* C36 as stated: every PROGRESS_UPDATE a step of the run sends carries
\* current = i+1 for the item i in work and total = N, with 1 <= current <= total.
C36_ProgressInRange ==
    [][RunStep =>
          \A n \in DOMAIN SentInStep :
              SentInStep[n].type = "PROGRESS_UPDATE"
                 => /\ SentInStep[n].current = ctl'.i + 1
                    /\ SentInStep[n].total = ctl'.totalItems
                    /\ 1 <= SentInStep[n].current
                    /\ SentInStep[n].current <= SentInStep[n].total]_vars

\* C37 as stated: when no call of addLogEntry is in flight any more, the
\* persisted logs hold every entry appended so far, except those the cap of 50
\* has evicted: they are the most recent min(n, 50) of the n entries, in order.
C37_NoLostLogEntries ==
    lg.calls = <<>> => lg.stored = MostRecent(lg.appended)

\* C38 as stated: when the controller's run has returned (completion, stop or
\* fatal error) and the user has neither started again nor has a click in
\* progress, the sidebar has left its running state: the messages of the run,
\* which the sidebar has all handled by then, have cleared its isRunning.
C38_SidebarAgrees ==
    (RunEnded /\ ~hist.rewritten /\ sb.pc = "idle") => ~sb.isRunning

\* the number of Send clicks of the current run for the item of index k
SendClicks(k) == Cardinality({n \in DOMAIN hist.clicks : hist.clicks[n] = k})

\* C39: within a run the Send button is clicked at most once for every item, a
\* click belongs to the item in work, and when ITEM_COMPLETE{i} has been sent
\* exactly one Send click for item i has occurred; it occurred before the step
\* that sent ITEM_COMPLETE{i}.
C39_OneSendClick ==
    /\ [](\A k \in 0..(MaxItems - 1) :
            /\ SendClicks(k) <= 1
            /\ ItemComplete(k) \in Range(sent) => SendClicks(k) = 1)
    /\ [][/\ Len(hist'.clicks) > Len(hist.clicks)
               => /\ hist'.clicks = Append(hist.clicks, ctl.i)
                  /\ ctl.i \notin Range(hist.clicks)
          /\ (RunStep /\ \E n \in DOMAIN SentInStep : SentInStep[n].type = "ITEM_COMPLETE")
               => /\ SendClicks(ctl.i) = 1
                  /\ hist'.clicks = hist.clicks
                  /\ ItemComplete(ctl.i) \in Range(SentInStep)]_vars

C39_Witness ==
    /\ RunEnded
    /\ hist.ended = "complete"
    /\ hist.clicks = <<0, 1>>
    /\ Lifecycle = <<ItemComplete(0), ItemComplete(1), AutomationComplete>>

====
